---- MODULE Spec2Model ----
(***************************************************************************)
(* VoxyScribe: the silence-detecting AudioRecorder (audio_recorder.py),    *)
(* the hotkey workflow behind ProcessingLock (main.py) and the overlay's   *)
(* feedback queue consumer (visual_feedback.py), as one state machine.     *)
(*                                                                         *)
(* Threads: the sounddevice callback thread (Callback..), the              *)
(* AudioRecordThread (RL_..), one WorkflowTriggerThread per hotkey press   *)
(* (Wf_..), the Qt GUI thread (PQ_..), and in SpecRec a client calling the *)
(* recorder's public methods directly (StartRecording, StopRecording).     *)
(* SpecUnits calls the Transcriber (transcriber.py) and the TextInjector   *)
(* (text_injector.py) directly (TranscribeCall, InjectCall).               *)
(*                                                                         *)
(* Units: silence_stop_duration is held in milliseconds (silence_stop_ms)  *)
(* so that the arithmetic stays in the integers; a normalized volume is    *)
(* held as its numerator over MAX_EXPECTED_RMS.                            *)
(***************************************************************************)
EXTENDS Integers, Sequences, FiniteSets, TLC

\* ---------------------------------------------------------------- bounds
\* blocks the audio subsystem delivers in one behaviour of SpecRec
MaxBlocks == 3
\* blocks the audio subsystem delivers in one behaviour of Spec or SpecUI
MaxWfBlocks == 2
\* capture sessions a client of SpecRec starts
MaxSessions == 2
\* hotkey presses in one behaviour of Spec
MaxTriggers == 2
\* hotkey presses in one behaviour of SpecUI
MaxUiTriggers == 1
\* direct calls of transcribe_audio, and of inject, in one behaviour of
\* SpecUnits
MaxCalls == 2
\* blocks delivered in one behaviour of SpecRuns
MaxRunBlocks == 5
\* commands handed to the overlay in one behaviour of SpecOverlay
MaxHandled == 3
\* largest integer root CalculateRms looks for
MaxRms == 1000

\* ------------------------------------------------------- program constants
MAX_EXPECTED_RMS == 700
DefaultSamplerate == 44100
DefaultBlocksize == 1024
DefaultSilenceThreshold == 50
DefaultSilenceStopMs == 1500

\* The scenario of the default configuration: 10 loud blocks, then silence.
ScenarioLoud == 10
\* one block more than the scenario needs, to see that the stop came no later
ScenarioLen == 75

\* ------------------------------------------------------------- data model
\* output_filename does not exist: a content no write produces (one block
\* that has no sample and the number 0; delivered blocks are numbered from 1)
NoFile == << [data |-> <<>>, n |-> 0] >>
\* the value transcribe_task queues when transcribe_audio raised
NoneText == "<None>"
\* texts the speech-to-text service returns
Texts == {"", "ola"}
\* ways the API call of transcribe_audio ends other than with a text
ApiErrors == {"AuthenticationError", "RateLimitError", "APIError", "Exception"}
Workflows == 1..MaxTriggers
\* Python's None where a Thread is expected; Threads are numbered from 1
None == 0

\* Sample contents of a block (all channels, a bounded number of frames):
\* digital silence, a block whose RMS is exactly 50, a block whose RMS is 51.
QuietData == <<0, 0>>
EdgeData == <<10, 70>>
LoudData == <<-51, 51>>
BlockData == {QuietData, EdgeData, LoudData}

\* AudioRecorder.__init__ arguments.  silence_stop_ms / 1000 is
\* silence_stop_duration.
DefaultCfg ==
    [samplerate |-> DefaultSamplerate, blocksize |-> DefaultBlocksize,
     silence_threshold |-> DefaultSilenceThreshold,
     silence_stop_ms |-> DefaultSilenceStopMs, feedback |-> TRUE, maxsize |-> 0]

\* Small configurations: 2.5 blocks per stop duration (truncated to 2),
\* exactly 2 blocks per stop duration, and less than one block (0).
Configs ==
    { [samplerate |-> 5, blocksize |-> 2, silence_threshold |-> 50,
       silence_stop_ms |-> 1000, feedback |-> TRUE, maxsize |-> 0],
      [samplerate |-> 4, blocksize |-> 2, silence_threshold |-> 50,
       silence_stop_ms |-> 1000, feedback |-> FALSE, maxsize |-> 0],
      [samplerate |-> 4, blocksize |-> 2, silence_threshold |-> 50,
       silence_stop_ms |-> 100, feedback |-> TRUE, maxsize |-> 0] }

\* main.py attaches the feedback queue; a recorder that stops at the first
\* silent block after speech
WfConfigs ==
    { [samplerate |-> 4, blocksize |-> 2, silence_threshold |-> 50,
       silence_stop_ms |-> 100, feedback |-> TRUE, maxsize |-> 0] }

VARIABLES
    cfg,                      \* constructor arguments of the AudioRecorder
    _queue,                   \* AudioRecorder._queue (callback -> thread)
    _stop_event,              \* AudioRecorder._stop_event
    _recording_thread,        \* number of the Thread object held, 0 = None
    rec_pc,                   \* position of the AudioRecordThread
    _audio_data,              \* AudioRecorder._audio_data
    _recording_started_flag,
    _silent_frames,
    _total_frames,
    stream_active,            \* the sd.InputStream is open and delivering
    cb_pc,                    \* position of the audio callback
    wav_file,                 \* content of output_filename, or NoFile
    feedback_queue,           \* the shared queue.Queue of (command, data)
    delivered,                \* blocks delivered so far (numbers the blocks)
    vol_attempts,             \* put_nowait calls made by _callback so far
    pushed,                   \* messages put so far (numbers the messages)
    sess_blocks,              \* blocks delivered to _callback this session
    auto_stop_at,             \* sess_blocks index whose callback set the stop
    cb_signalled,             \* the last _callback call reached line 119
    manual_stop,              \* stop_recording set the stop event this session
    sess_wrote,               \* this session's finalization wrote the file
    stream_error,             \* the exception this session's try block raised
    last_call,                \* the last public recorder call and its result
    is_processing,            \* main.is_processing (the Lock) is held
    wf_pc,                    \* position of each WorkflowTriggerThread
    wf_thread,                \* trigger_voxy_workflow's recording_thread
    wf_text,                  \* trigger_voxy_workflow's transcribed_text
    transcriber_client,       \* Transcriber.client is not None
    injected,                 \* texts pyautogui has typed, in order
    wf_call,                  \* how the calls made in each workflow's body ended
    tr_last,                  \* the last direct transcribe_audio call
    inj_last,                 \* the last direct inject call
    norm_last,                \* the last two direct _normalize_rms calls
    ui_pc,                    \* position of the GUI thread in _process_queue
    overlay,                  \* state of the PySideFeedbackWindow
    dispatched,               \* producer and number of each message handed
                              \* to _handle_feedback, in order
    pq_snapshot,              \* ids queued when the running _process_queue began
    handled                   \* command and data of each _handle_feedback call

recvars == <<_queue, _stop_event, _recording_thread, rec_pc, _audio_data,
             _recording_started_flag, _silent_frames, _total_frames,
             stream_active, cb_pc, wav_file>>
ghostvars == <<delivered, vol_attempts, sess_blocks, auto_stop_at, cb_signalled, manual_stop,
               sess_wrote, stream_error>>
wfvars == <<is_processing, wf_pc, wf_thread, wf_text, transcriber_client,
            injected, wf_call>>
unitvars == <<tr_last, inj_last, norm_last>>
uivars == <<ui_pc, overlay, dispatched, pq_snapshot, handled>>
vars == <<cfg, recvars, feedback_queue, pushed, ghostvars, last_call, wfvars,
          uivars, unitvars>>

\* ------------------------------------------------------------ pure helpers
RECURSIVE SumSq(_)
SumSq(s) == IF s = <<>> THEN 0 ELSE Head(s) * Head(s) + SumSq(Tail(s))

\* _calculate_rms: sqrt(mean(square(data))); every block of BlockData has a
\* mean square that is a perfect square, so the root is exact.
_calculate_rms(data) ==
    IF Len(data) = 0 THEN 0
    ELSE LET ms == SumSq(data) \div Len(data)
         IN  CHOOSE r \in 0..MaxRms : r * r = ms

\* a scaling that does not clamp
NormalizeUnclamped(rms_value) == rms_value

\* _normalize_rms: max(0.0, min(1.0, rms / MAX_EXPECTED_RMS)), as the
\* numerator of a fraction over MAX_EXPECTED_RMS.
_normalize_rms(rms_value) ==
    LET lo == IF rms_value < MAX_EXPECTED_RMS THEN rms_value ELSE MAX_EXPECTED_RMS
    IN  IF lo < 0 THEN 0 ELSE lo

\* silent_frames_needed = int(silence_stop_duration * (samplerate / blocksize))
SilentFramesNeededCeil(c) ==
    (c.silence_stop_ms * c.samplerate + 1000 * c.blocksize - 1)
        \div (1000 * c.blocksize)

silent_frames_needed(c) ==
    (c.silence_stop_ms * c.samplerate) \div (1000 * c.blocksize)

\* queue.Queue.put on the feedback queue (unbounded, so never Full); src and
\* id record the producer and the arrival number of the message.
FeedbackPut(q, cmd, data, src, id) ==
    Append(q, [cmd |-> cmd, data |-> data, src |-> src, id |-> id])

\* a put_nowait that never finds the queue full
PutIgnoresMaxsize(q, maxsize, cmd, data, src, id) ==
    [full |-> FALSE, q |-> FeedbackPut(q, cmd, data, src, id)]

\* queue.Queue.put_nowait on a queue.Queue(maxsize): queue.Full when
\* maxsize > 0 and that many messages are queued, which the callers catch
put_nowait(q, maxsize, cmd, data, src, id) ==
    LET full == maxsize > 0 /\ Len(q) >= maxsize
    IN  [full |-> full,
         q |-> IF full THEN q ELSE FeedbackPut(q, cmd, data, src, id)]

\* the producers of feedback messages: the audio callback thread, the
\* AudioRecordThread and the workflow threads
CallbackSrc == [kind |-> "callback", n |-> 0]
RecorderSrc == [kind |-> "recorder", n |-> 0]
WfSrc(w) == [kind |-> "workflow", n |-> w]

IsAlive == rec_pc \notin {"none", "dead"}

\* ------------------------------------------------ AudioRecorder: callback
\* line 107: the block counts as sound
IsAboveThresholdGe(rms, c) == rms >= c.silence_threshold

IsAboveThreshold(rms, c) == rms > c.silence_threshold

\* line 118: enough consecutive silent blocks
ReachedSilentFramesGt(count, needed) == count > needed

ReachedSilentFrames(count, needed) == count >= needed

\* a counter that a block of sound leaves as it is
SilentFramesKept(count) == count

\* line 112: self._silent_frames = 0
SilentFramesAfterSound(count) == 0

\* AudioRecorder._callback up to line 118, for the block with samples data.
\* frames is the blocksize the stream was opened with.
CallbackBody(data) ==
    LET rms == _calculate_rms(data)
        indata == [n |-> delivered + 1, data |-> data]
        frames == cfg.blocksize
    IN  /\ stream_active
        /\ cb_pc = "idle"
        /\ delivered' = delivered + 1
        /\ sess_blocks' = Append(sess_blocks, indata)
        /\ IF cfg.feedback
           THEN LET put == put_nowait(feedback_queue, cfg.maxsize,
                                      "update_volume", _normalize_rms(rms),
                                      CallbackSrc, pushed + 1)
                IN  /\ feedback_queue' = put.q
                    /\ pushed' = IF put.full THEN pushed ELSE pushed + 1
                    /\ vol_attempts' = vol_attempts + 1
           ELSE UNCHANGED <<feedback_queue, pushed, vol_attempts>>
        /\ IF IsAboveThreshold(rms, cfg)
           THEN /\ _recording_started_flag' = TRUE
                /\ _queue' = Append(_queue, indata)
                /\ _silent_frames' = SilentFramesAfterSound(_silent_frames)
                /\ _total_frames' = _total_frames + frames
                /\ cb_pc' = "idle"
                /\ cb_signalled' = FALSE
           ELSE IF _recording_started_flag
           THEN /\ _queue' = Append(_queue, indata)
                /\ _silent_frames' = _silent_frames + 1
                /\ _total_frames' = _total_frames + frames
                /\ cb_pc' = IF ReachedSilentFrames(_silent_frames + 1,
                                                   silent_frames_needed(cfg))
                            THEN "signal" ELSE "idle"
                /\ cb_signalled' = ReachedSilentFrames(_silent_frames + 1,
                                                      silent_frames_needed(cfg))
                /\ UNCHANGED _recording_started_flag
           ELSE /\ cb_signalled' = FALSE
                /\ UNCHANGED <<_recording_started_flag, _queue,
                               _silent_frames, _total_frames, cb_pc>>
        /\ UNCHANGED <<cfg, _stop_event, _recording_thread, rec_pc,
                       _audio_data, stream_active, wav_file, auto_stop_at,
                       manual_stop, sess_wrote, stream_error, last_call, wfvars,
                   uivars, unitvars>>

\* the audio subsystem delivers any block
Callback ==
    /\ delivered < MaxBlocks
    /\ \E data \in BlockData : CallbackBody(data)

\* the scenario's stream: ScenarioLoud loud blocks, then silence that
\* alternates between RMS = threshold and digital silence
ScriptData(i) ==
    IF i <= ScenarioLoud THEN LoudData
    ELSE IF (i - ScenarioLoud) % 2 = 1 THEN EdgeData ELSE QuietData

CallbackScripted ==
    /\ delivered < ScenarioLen
    /\ CallbackBody(ScriptData(delivered + 1))

\* AudioRecorder._callback lines 119-120: self._stop_event.set()
CallbackSignal ==
    /\ cb_pc = "signal"
    /\ _stop_event' = TRUE
    /\ cb_pc' = "idle"
    /\ auto_stop_at' = IF auto_stop_at = 0 THEN Len(sess_blocks)
                       ELSE auto_stop_at
    /\ UNCHANGED <<cfg, _queue, _recording_thread, rec_pc, _audio_data,
                   _recording_started_flag, _silent_frames, _total_frames,
                   stream_active, wav_file, feedback_queue, pushed, delivered, vol_attempts,
                   sess_blocks, cb_signalled, manual_stop, sess_wrote, stream_error,
                   last_call, wfvars,
                   uivars, unitvars>>

\* ------------------------------------------ AudioRecorder: capture thread
\* a thread start that keeps what the last session accumulated
RL_InitKeepsData ==
    /\ rec_pc = "init"
    /\ _recording_started_flag' = FALSE
    /\ _silent_frames' = 0
    /\ _total_frames' = 0
    /\ rec_pc' = "open"
    /\ UNCHANGED <<cfg, _queue, _stop_event, _recording_thread, stream_active,
                   cb_pc, wav_file, feedback_queue, pushed, ghostvars,
                   last_call, wfvars, _audio_data,
                   uivars, unitvars>>

\* _recording_loop lines 125-130
RL_Init ==
    /\ rec_pc = "init"
    /\ _audio_data' = <<>>
    /\ _recording_started_flag' = FALSE
    /\ _silent_frames' = 0
    /\ _total_frames' = 0
    /\ rec_pc' = "open"
    /\ UNCHANGED <<cfg, _queue, _stop_event, _recording_thread, stream_active,
                   cb_pc, wav_file, feedback_queue, pushed, ghostvars,
                   last_call, wfvars,
                   uivars, unitvars>>

\* lines 133-142: the stream opens and starts delivering blocks
RL_OpenStream ==
    /\ rec_pc = "open"
    /\ stream_active' = TRUE
    /\ rec_pc' = "loop"
    /\ UNCHANGED <<cfg, _queue, _stop_event, _recording_thread, _audio_data,
                   _recording_started_flag, _silent_frames, _total_frames,
                   cb_pc, wav_file, feedback_queue, pushed, ghostvars,
                   last_call, wfvars,
                   uivars, unitvars>>

\* what the try block of _recording_loop can raise, and the message each
\* except clause (lines 158-166, 167-174) puts
NoError == "-"
StreamErrors == {"PortAudioError", "Exception"}
ErrorText(e) ==
    IF e = "PortAudioError" THEN "Erro no dispositivo de audio!"
    ELSE "Erro na gravacao!"

\* a stream error that ends the capture thread at once
RL_StreamFailPropagates ==
    /\ rec_pc = "get"
    /\ _queue = <<>>
    /\ cb_pc = "idle"
    /\ stream_error' = "PortAudioError"
    /\ stream_active' = FALSE
    /\ rec_pc' = "dead"
    /\ UNCHANGED <<cfg, _queue, _stop_event, _recording_thread, _audio_data,
                   _recording_started_flag, _silent_frames, _total_frames,
                   cb_pc, wav_file, feedback_queue, pushed, delivered, vol_attempts,
                   sess_blocks, auto_stop_at, cb_signalled, manual_stop,
                   sess_wrote, last_call, wfvars, uivars, unitvars>>

\* line 152 raises PortAudioError (the device is gone when stream.active asks
\* for its state): the with statement closes the stream, which waits for a
\* running callback, and the except clause at lines 158-166 reports the error
RL_StreamFail ==
    /\ rec_pc = "get"
    /\ _queue = <<>>
    /\ cb_pc = "idle"
    /\ stream_error' = "PortAudioError"
    /\ stream_active' = FALSE
    /\ IF cfg.feedback
       THEN LET put == put_nowait(feedback_queue, cfg.maxsize, "show_message",
                                  ErrorText("PortAudioError"), RecorderSrc,
                                  pushed + 1)
            IN  /\ feedback_queue' = put.q
                /\ pushed' = IF put.full THEN pushed ELSE pushed + 1
       ELSE UNCHANGED <<feedback_queue, pushed>>
    /\ rec_pc' = "finally"
    /\ UNCHANGED <<cfg, _queue, _stop_event, _recording_thread, _audio_data,
                   _recording_started_flag, _silent_frames, _total_frames,
                   cb_pc, wav_file, delivered, vol_attempts, sess_blocks, auto_stop_at,
                   cb_signalled, manual_stop, sess_wrote, last_call, wfvars,
                   uivars, unitvars>>

\* lines 134-141 raise: opening or starting the stream fails with
\* PortAudioError or another exception, each reported to the feedback queue
\* when one is attached
RL_OpenFail ==
    /\ rec_pc = "open"
    /\ \E e \in StreamErrors :
          /\ stream_error' = e
          /\ IF cfg.feedback
             THEN LET put == put_nowait(feedback_queue, cfg.maxsize,
                                        "show_message", ErrorText(e),
                                        RecorderSrc, pushed + 1)
                  IN  /\ feedback_queue' = put.q
                      /\ pushed' = IF put.full THEN pushed ELSE pushed + 1
             ELSE UNCHANGED <<feedback_queue, pushed>>
    /\ rec_pc' = "finally"
    /\ UNCHANGED <<cfg, _queue, _stop_event, _recording_thread, _audio_data,
                   _recording_started_flag, _silent_frames, _total_frames,
                   stream_active, cb_pc, wav_file, delivered, vol_attempts, sess_blocks,
                   auto_stop_at, cb_signalled, manual_stop, sess_wrote,
                   last_call, wfvars,
                   uivars, unitvars>>

\* line 143: while not self._stop_event.is_set()
RL_CheckStop ==
    /\ rec_pc = "loop"
    /\ rec_pc' = IF _stop_event THEN "exit_with" ELSE "get"
    /\ UNCHANGED <<cfg, _queue, _stop_event, _recording_thread, _audio_data,
                   _recording_started_flag, _silent_frames, _total_frames,
                   stream_active, cb_pc, wav_file, feedback_queue, pushed,
                   ghostvars, last_call, wfvars,
                   uivars, unitvars>>

\* lines 147-148: a block is available
RL_Get ==
    /\ rec_pc = "get"
    /\ _queue # <<>>
    /\ _audio_data' = Append(_audio_data, Head(_queue))
    /\ _queue' = Tail(_queue)
    /\ rec_pc' = "loop"
    /\ UNCHANGED <<cfg, _stop_event, _recording_thread,
                   _recording_started_flag, _silent_frames, _total_frames,
                   stream_active, cb_pc, wav_file, feedback_queue, pushed,
                   ghostvars, last_call, wfvars,
                   uivars, unitvars>>

\* a get() without timeout: on an empty queue the thread stays blocked
RL_GetBlocks ==
    /\ rec_pc = "get"
    /\ _queue = <<>>
    /\ UNCHANGED vars

\* lines 149-155: the 0.5 s timeout expires on an empty queue
RL_GetTimeout ==
    /\ rec_pc = "get"
    /\ _queue = <<>>
    /\ rec_pc' = IF ~stream_active THEN "exit_with" ELSE "loop"
    /\ UNCHANGED <<cfg, _queue, _stop_event, _recording_thread, _audio_data,
                   _recording_started_flag, _silent_frames, _total_frames,
                   stream_active, cb_pc, wav_file, feedback_queue, pushed,
                   ghostvars, last_call, wfvars,
                   uivars, unitvars>>

\* a loop exit that ends the thread without its finally block
RL_ExitWithSkipsFinally ==
    /\ rec_pc = "exit_with"
    /\ cb_pc = "idle"
    /\ stream_active' = FALSE
    /\ rec_pc' = "dead"
    /\ UNCHANGED <<cfg, _queue, _stop_event, _recording_thread, _audio_data,
                   _recording_started_flag, _silent_frames, _total_frames,
                   cb_pc, wav_file, feedback_queue, pushed, ghostvars,
                   last_call, wfvars,
                   uivars, unitvars>>

\* line 156 and the end of "with stream": the stream is closed, which waits
\* for a running callback to return
RL_ExitWith ==
    /\ rec_pc = "exit_with"
    /\ cb_pc = "idle"
    /\ stream_active' = FALSE
    /\ rec_pc' = "finally"
    /\ UNCHANGED <<cfg, _queue, _stop_event, _recording_thread, _audio_data,
                   _recording_started_flag, _silent_frames, _total_frames,
                   cb_pc, wav_file, feedback_queue, pushed, ghostvars,
                   last_call, wfvars,
                   uivars, unitvars>>

\* a finalization that writes the file even when nothing was accumulated
RL_FinalizeAlwaysWrites ==
    /\ rec_pc = "finally"
    /\ _stop_event' = TRUE
    /\ wav_file' = _audio_data
    /\ sess_wrote' = TRUE
    /\ rec_pc' = "dead"
    /\ UNCHANGED <<cfg, _queue, _recording_thread, _audio_data,
                   _recording_started_flag, _silent_frames, _total_frames,
                   stream_active, cb_pc, feedback_queue, pushed, delivered, vol_attempts,
                   sess_blocks, auto_stop_at, cb_signalled, manual_stop,
                   stream_error, last_call, wfvars,
                   uivars, unitvars>>

\* lines 175-209: the finally block; np.concatenate keeps the blocks in order
RL_Finalize ==
    /\ rec_pc = "finally"
    /\ _stop_event' = TRUE
    /\ IF _audio_data = <<>>
       THEN UNCHANGED <<wav_file, sess_wrote>>
       ELSE /\ wav_file' = _audio_data
            /\ sess_wrote' = TRUE
    /\ rec_pc' = "dead"
    /\ UNCHANGED <<cfg, _queue, _recording_thread, _audio_data,
                   _recording_started_flag, _silent_frames, _total_frames,
                   stream_active, cb_pc, feedback_queue, pushed, delivered, vol_attempts,
                   sess_blocks, auto_stop_at, cb_signalled, manual_stop,
                   stream_error, last_call, wfvars,
                   uivars, unitvars>>

\* what a failed save leaves at output_filename: np.concatenate and makedirs
\* raise before the file is opened, wav.write raises after it has opened and
\* truncated it
SaveFailLeaves(file) == {file, <<>>}

\* lines 175-209 when concatenate, makedirs or wav.write raises (lines
\* 200-207): the error is reported to the feedback queue when one is attached
RL_SaveFail ==
    /\ rec_pc = "finally"
    /\ _audio_data # <<>>
    /\ _stop_event' = TRUE
    /\ wav_file' \in SaveFailLeaves(wav_file)
    /\ IF cfg.feedback
       THEN LET put == put_nowait(feedback_queue, cfg.maxsize, "show_message",
                                  "Erro ao salvar audio!", RecorderSrc,
                                  pushed + 1)
            IN  /\ feedback_queue' = put.q
                /\ pushed' = IF put.full THEN pushed ELSE pushed + 1
       ELSE UNCHANGED <<feedback_queue, pushed>>
    /\ rec_pc' = "dead"
    /\ UNCHANGED <<cfg, _queue, _recording_thread, _audio_data,
                   _recording_started_flag, _silent_frames, _total_frames,
                   stream_active, cb_pc, ghostvars,
                   last_call, wfvars,
                   uivars, unitvars>>

\* --------------------------------------- AudioRecorder: public operations
\* start_recording without the is_alive test
start_recording_unguarded(ret) ==
    /\ ret = _recording_thread + 1
    /\ _stop_event' = FALSE
    /\ _queue' = <<>>
    /\ _recording_thread' = _recording_thread + 1
    /\ rec_pc' = "init"
    /\ sess_blocks' = <<>>
    /\ auto_stop_at' = 0
    /\ manual_stop' = FALSE
    /\ sess_wrote' = FALSE
    /\ stream_error' = NoError
    /\ UNCHANGED <<_audio_data, _recording_started_flag, _silent_frames,
                   _total_frames, stream_active, cb_pc, wav_file, delivered, vol_attempts,
                   cb_signalled>>

\* AudioRecorder.start_recording; ret is the value it returns (None or the
\* number of the new Thread)
start_recording(ret) ==
    IF _recording_thread # None /\ IsAlive
    THEN /\ ret = None
         /\ UNCHANGED <<recvars, ghostvars>>
    ELSE /\ ret = _recording_thread + 1
         /\ _stop_event' = FALSE
         /\ _queue' = <<>>
         /\ _recording_thread' = _recording_thread + 1
         /\ rec_pc' = "init"
         /\ sess_blocks' = <<>>
         /\ auto_stop_at' = 0
         /\ manual_stop' = FALSE
         /\ sess_wrote' = FALSE
         /\ stream_error' = NoError
         /\ UNCHANGED <<_audio_data, _recording_started_flag, _silent_frames,
                        _total_frames, stream_active, cb_pc, wav_file,
                        delivered, vol_attempts, cb_signalled>>

\* stop_recording without the is_alive test
stop_recording_unguarded ==
    /\ _stop_event' = TRUE
    /\ manual_stop' = TRUE
    /\ UNCHANGED <<_queue, _recording_thread, rec_pc, _audio_data,
                   _recording_started_flag, _silent_frames, _total_frames,
                   stream_active, cb_pc, wav_file, delivered, vol_attempts, sess_blocks,
                   auto_stop_at, cb_signalled, sess_wrote, stream_error>>

\* AudioRecorder.stop_recording
stop_recording ==
    IF _recording_thread # None /\ IsAlive
    THEN /\ _stop_event' = TRUE
         /\ manual_stop' = TRUE
         /\ UNCHANGED <<_queue, _recording_thread, rec_pc, _audio_data,
                        _recording_started_flag, _silent_frames,
                        _total_frames, stream_active, cb_pc, wav_file,
                        delivered, vol_attempts, sess_blocks, auto_stop_at, cb_signalled,
                        sess_wrote, stream_error>>
    ELSE UNCHANGED <<recvars, ghostvars>>

\* a client of the recorder calls start_recording()
StartRecording ==
    /\ IsAlive \/ _recording_thread < MaxSessions
    /\ \E ret \in {None} \cup (1..MaxSessions) :
          /\ start_recording(ret)
          /\ last_call' = [op |-> "start_recording", ret |-> ret,
                           alive |-> IsAlive, tick |-> 1 - last_call.tick]
    /\ UNCHANGED <<cfg, feedback_queue, pushed, wfvars, uivars, unitvars>>

\* a client of the recorder calls stop_recording()
StopRecording ==
    /\ stop_recording
    /\ last_call' = [op |-> "stop_recording", ret |-> None,
                     alive |-> IsAlive, tick |-> 1 - last_call.tick]
    /\ UNCHANGED <<cfg, feedback_queue, pushed, wfvars, uivars, unitvars>>

\* ----------------------------------------------------------- Transcriber
\* the file vanishes between the exists test and open (lines 77-80)
OpenNotFound == "FileNotFoundError"

\* Transcriber.__init__: the client exists iff a key was given or found in
\* the environment and the OpenAI constructor did not raise
TranscriberInit(api_key, env_key, ctor_ok) == (api_key \/ env_key) /\ ctor_ok

\* a transcribe_audio that lets a rate-limit error escape
TranscribeAudioRateLimitEscapes(client, exists, api) ==
    IF ~client THEN [raised |-> FALSE, value |-> NoneText]
    ELSE IF ~exists THEN [raised |-> TRUE, value |-> NoneText]
    ELSE IF api = OpenNotFound THEN [raised |-> TRUE, value |-> NoneText]
    ELSE IF api = "RateLimitError" THEN [raised |-> TRUE, value |-> NoneText]
    ELSE IF api \in ApiErrors THEN [raised |-> FALSE, value |-> NoneText]
    ELSE [raised |-> FALSE, value |-> api]

\* a transcribe_audio that tests the file before the client
TranscribeAudioFileFirst(client, exists, api) ==
    IF ~exists THEN [raised |-> TRUE, value |-> NoneText]
    ELSE IF ~client THEN [raised |-> FALSE, value |-> NoneText]
    ELSE IF api = OpenNotFound THEN [raised |-> TRUE, value |-> NoneText]
    ELSE IF api \in ApiErrors THEN [raised |-> FALSE, value |-> NoneText]
    ELSE [raised |-> FALSE, value |-> api]

\* Transcriber.transcribe_audio: what it does given whether the client was
\* built, whether file_path exists, and how the API call ends (api is a text
\* of Texts, an error of ApiErrors, or OpenNotFound).
\* raised = FileNotFoundError.
transcribe_audio(client, exists, api) ==
    IF ~client THEN [raised |-> FALSE, value |-> NoneText]
    ELSE IF ~exists THEN [raised |-> TRUE, value |-> NoneText]
    ELSE IF api = OpenNotFound THEN [raised |-> TRUE, value |-> NoneText]
    ELSE IF api \in ApiErrors THEN [raised |-> FALSE, value |-> NoneText]
    ELSE [raised |-> FALSE, value |-> api]

\* main.transcribe_task: what it puts on result_queue
transcribe_task(client, exists, api) ==
    LET r == transcribe_audio(client, exists, api)
    IN  IF r.raised THEN NoneText
        ELSE IF r.value = NoneText \/ r.value = "" THEN ""
        ELSE r.value

\* -------------------------------------------------------------- TextInjector
\* ways pyautogui.write ends
WriteOutcomes == {"ok", "FailSafeException", "Exception"}

\* an inject that lets the fault of pyautogui.write escape
InjectLetsFaultEscape(text, sim) ==
    IF text = "" THEN [raised |-> FALSE, ret |-> TRUE, typed |-> <<>>]
    ELSE IF sim = "ok"
    THEN [raised |-> FALSE, ret |-> TRUE, typed |-> <<text>>]
    ELSE IF sim = "FailSafeException"
    THEN [raised |-> FALSE, ret |-> FALSE, typed |-> <<>>]
    ELSE [raised |-> TRUE, ret |-> FALSE, typed |-> <<>>]

\* TextInjector.inject: what it returns, whether it raises, and the texts
\* pyautogui.write typed completely, when the write ends as sim
inject(text, sim) ==
    IF text = "" THEN [raised |-> FALSE, ret |-> TRUE, typed |-> <<>>]
    ELSE IF sim = "ok"
    THEN [raised |-> FALSE, ret |-> TRUE, typed |-> <<text>>]
    ELSE [raised |-> FALSE, ret |-> FALSE, typed |-> <<>>]

\* ------------------------------------------------- main: the hotkey workflow
\* an acquire that always succeeds
AcquireAlways(locked) == TRUE

\* threading.Lock.acquire(blocking=False): succeeds iff the lock is free
AcquireNonBlocking(locked) == ~locked

wfframe == <<cfg, recvars, ghostvars, last_call, uivars, unitvars>>

\* wf_call of a workflow that has called nothing yet
NotCalled == "-"
NoCalls == [start |-> NotCalled, api |-> NotCalled, inject |-> NotCalled]

\* a rejected trigger that leaves through the finally block
Wf_AcquireRejectIntoFinally(w) ==
    /\ wf_pc[w] = "idle"
    /\ IF AcquireNonBlocking(is_processing)
       THEN /\ is_processing' = TRUE
            /\ wf_pc' = [wf_pc EXCEPT ![w] = "emit_start"]
       ELSE /\ wf_pc' = [wf_pc EXCEPT ![w] = "release"]
            /\ UNCHANGED is_processing
    /\ UNCHANGED <<wfframe, feedback_queue, pushed, wf_thread, wf_text,
                   transcriber_client, injected, wf_call>>

\* trigger_voxy_workflow lines 50-62, on the thread the hotkey press started
Wf_Acquire(w) ==
    /\ wf_pc[w] = "idle"
    /\ IF AcquireNonBlocking(is_processing)
       THEN /\ is_processing' = TRUE
            /\ wf_pc' = [wf_pc EXCEPT ![w] = "emit_start"]
       ELSE /\ wf_pc' = [wf_pc EXCEPT ![w] = "ignored"]
            /\ UNCHANGED is_processing
    /\ UNCHANGED <<wfframe, feedback_queue, pushed, wf_thread, wf_text,
                   transcriber_client, injected, wf_call>>

\* feedback_queue.put((cmd, data)) by workflow w, then on to position next
WfPut(w, cmd, data, next) ==
    /\ feedback_queue' = FeedbackPut(feedback_queue, cmd, data, WfSrc(w), pushed + 1)
    /\ pushed' = pushed + 1
    /\ wf_pc' = [wf_pc EXCEPT ![w] = next]

\* a workflow that starts the capture without announcing it
Wf_EmitStartSkipped(w) ==
    /\ wf_pc[w] = "emit_start"
    /\ wf_pc' = [wf_pc EXCEPT ![w] = "start_rec"]
    /\ UNCHANGED <<wfframe, feedback_queue, pushed, is_processing, wf_thread,
                   wf_text, transcriber_client, injected, wf_call>>

\* lines 68-70
Wf_EmitStart(w) ==
    /\ wf_pc[w] = "emit_start"
    /\ WfPut(w, "start_recording", "", "start_rec")
    /\ UNCHANGED <<wfframe, is_processing, wf_thread, wf_text,
                   transcriber_client, injected, wf_call>>

\* lines 73-76: start_recording(); no handle raises RuntimeError
Wf_StartRec(w) ==
    /\ wf_pc[w] = "start_rec"
    /\ \E ret \in {None} \cup (1..MaxTriggers) :
          /\ start_recording(ret)
          /\ last_call' = [op |-> "start_recording", ret |-> ret,
                           alive |-> IsAlive, tick |-> 1 - last_call.tick]
          /\ wf_thread' = [wf_thread EXCEPT ![w] = ret]
          /\ wf_pc' = [wf_pc EXCEPT ![w] =
                          IF ret = None THEN "rec_error" ELSE "join"]
          /\ wf_call' = [wf_call EXCEPT ![w].start =
                            IF ret = None THEN "None" ELSE "handle"]
    /\ UNCHANGED <<cfg, feedback_queue, pushed, is_processing, wf_text,
                   transcriber_client, injected, uivars, unitvars>>

\* a failed thread start that the workflow does not notice
Wf_StartRecRaisesUnnoticed(w) ==
    /\ wf_pc[w] = "start_rec"
    /\ ~(_recording_thread # None /\ IsAlive)
    /\ _stop_event' = FALSE
    /\ _queue' = <<>>
    /\ _recording_thread' = _recording_thread + 1
    /\ rec_pc' = "none"
    /\ sess_blocks' = <<>>
    /\ auto_stop_at' = 0
    /\ manual_stop' = FALSE
    /\ sess_wrote' = FALSE
    /\ stream_error' = NoError
    /\ wf_pc' = [wf_pc EXCEPT ![w] = "transcribe"]
    /\ wf_call' = [wf_call EXCEPT ![w].start = "raised"]
    /\ UNCHANGED <<cfg, _audio_data, _recording_started_flag, _silent_frames,
                   _total_frames, stream_active, cb_pc, wav_file, delivered, vol_attempts,
                   cb_signalled, last_call, feedback_queue, pushed,
                   is_processing, wf_thread, wf_text, transcriber_client,
                   injected, uivars, unitvars>>

\* line 73 when Thread.start() at audio_recorder.py line 226 raises
\* RuntimeError (no new thread can be started): the recorder holds a Thread
\* that never ran, and the exception reaches line 84
Wf_StartRecRaises(w) ==
    /\ wf_pc[w] = "start_rec"
    /\ ~(_recording_thread # None /\ IsAlive)
    /\ _stop_event' = FALSE
    /\ _queue' = <<>>
    /\ _recording_thread' = _recording_thread + 1
    /\ rec_pc' = "none"
    /\ sess_blocks' = <<>>
    /\ auto_stop_at' = 0
    /\ manual_stop' = FALSE
    /\ sess_wrote' = FALSE
    /\ stream_error' = NoError
    /\ wf_pc' = [wf_pc EXCEPT ![w] = "rec_error"]
    /\ wf_call' = [wf_call EXCEPT ![w].start = "raised"]
    /\ UNCHANGED <<cfg, _audio_data, _recording_started_flag, _silent_frames,
                   _total_frames, stream_active, cb_pc, wav_file, delivered, vol_attempts,
                   cb_signalled, last_call, feedback_queue, pushed,
                   is_processing, wf_thread, wf_text, transcriber_client,
                   injected, uivars, unitvars>>

\* a join that returns while the thread still runs
Wf_JoinReturnsAtOnce(w) ==
    /\ wf_pc[w] = "join"
    /\ wf_pc' = [wf_pc EXCEPT ![w] = "transcribe"]
    /\ UNCHANGED <<wfframe, feedback_queue, pushed, is_processing, wf_thread,
                   wf_text, transcriber_client, injected, wf_call>>

\* lines 78-79: recording_thread.join() returns
Wf_Join(w) ==
    /\ wf_pc[w] = "join"
    /\ ~(_recording_thread = wf_thread[w] /\ IsAlive)
    /\ wf_pc' = [wf_pc EXCEPT ![w] = "transcribe"]
    /\ UNCHANGED <<wfframe, feedback_queue, pushed, is_processing, wf_thread,
                   wf_text, transcriber_client, injected, wf_call>>

\* a capture failure whose return skips the finally block
Wf_RecErrorSkipsFinally(w) ==
    /\ wf_pc[w] = "rec_error"
    /\ WfPut(w, "show_message", "Erro Gravacao!", "cleanup")
    /\ UNCHANGED <<wfframe, is_processing, wf_thread, wf_text,
                   transcriber_client, injected, wf_call>>

\* lines 84-90
Wf_RecError(w) ==
    /\ wf_pc[w] = "rec_error"
    /\ WfPut(w, "show_message", "Erro Gravacao!", "release")
    /\ UNCHANGED <<wfframe, is_processing, wf_thread, wf_text,
                   transcriber_client, injected, wf_call>>

\* lines 97-113: the TranscribeThread is started
Wf_StartTranscribe(w) ==
    /\ wf_pc[w] = "transcribe"
    /\ wf_pc' = [wf_pc EXCEPT ![w] = "transcribing"]
    /\ UNCHANGED <<wfframe, feedback_queue, pushed, is_processing, wf_thread,
                   wf_text, transcriber_client, injected, wf_call>>

\* how the transcribe_audio call of transcribe_task went
TranscribeHow(client, exists, api) ==
    IF ~client THEN "no client"
    ELSE IF ~exists THEN "FileNotFoundError"
    ELSE api

\* lines 97-104 and 115-118: transcribe_task runs, is joined, and its result
\* is taken from result_queue
Wf_TranscribeDone(w) ==
    /\ wf_pc[w] = "transcribing"
    /\ \E api \in Texts \cup ApiErrors :
          LET exists == wav_file # NoFile
              queued == transcribe_task(transcriber_client, exists, api)
          IN  /\ wf_text' = [wf_text EXCEPT ![w] = queued]
              /\ wf_call' = [wf_call EXCEPT ![w].api =
                                TranscribeHow(transcriber_client, exists, api)]
    /\ wf_pc' = [wf_pc EXCEPT ![w] = "result"]
    /\ UNCHANGED <<wfframe, feedback_queue, pushed, is_processing, wf_thread,
                   transcriber_client, injected>>

\* a result handler that reports an empty text as an error
Wf_HandleResultEmptyIsError(w) ==
    /\ wf_pc[w] = "result"
    /\ IF wf_text[w] = NoneText \/ wf_text[w] = ""
       THEN WfPut(w, "show_message", "Erro Transcricao!", "release")
       ELSE /\ wf_pc' = [wf_pc EXCEPT ![w] = "inject"]
            /\ UNCHANGED <<feedback_queue, pushed>>
    /\ UNCHANGED <<wfframe, is_processing, wf_thread, wf_text,
                   transcriber_client, injected, wf_call>>

\* lines 120-133 and 144
Wf_HandleResult(w) ==
    /\ wf_pc[w] = "result"
    /\ IF wf_text[w] = NoneText
       THEN WfPut(w, "show_message", "Erro Transcricao!", "release")
       ELSE IF wf_text[w] = ""
       THEN WfPut(w, "stop_recording", "", "release")
       ELSE /\ wf_pc' = [wf_pc EXCEPT ![w] = "inject"]
            /\ UNCHANGED <<feedback_queue, pushed>>
    /\ UNCHANGED <<wfframe, is_processing, wf_thread, wf_text,
                   transcriber_client, injected, wf_call>>

\* lines 147-149
Wf_EmitInjecting(w) ==
    /\ wf_pc[w] = "inject"
    /\ WfPut(w, "show_message", "Injetando...", "injecting")
    /\ UNCHANGED <<wfframe, is_processing, wf_thread, wf_text,
                   transcriber_client, injected, wf_call>>

\* an orchestrator that reports success whatever inject returned
Wf_InjectDoneAlwaysStops(w) ==
    /\ wf_pc[w] = "injecting"
    /\ \E sim \in WriteOutcomes :
          LET r == inject(wf_text[w], sim)
          IN  /\ injected' = injected \o r.typed
              /\ WfPut(w, "stop_recording", "", "release")
              /\ wf_call' = [wf_call EXCEPT ![w].inject =
                                IF r.ret THEN "True" ELSE "False"]
    /\ UNCHANGED <<wfframe, is_processing, wf_thread, wf_text,
                   transcriber_client>>

\* lines 150-160: TextInjector.inject returns
Wf_InjectDone(w) ==
    /\ wf_pc[w] = "injecting"
    /\ \E sim \in WriteOutcomes :
          LET r == inject(wf_text[w], sim)
          IN  /\ injected' = injected \o r.typed
              /\ IF r.ret
                 THEN WfPut(w, "stop_recording", "", "release")
                 ELSE WfPut(w, "show_message", "Erro Injecao!", "release")
              /\ wf_call' = [wf_call EXCEPT ![w].inject =
                                IF r.ret THEN "True" ELSE "False"]
    /\ UNCHANGED <<wfframe, is_processing, wf_thread, wf_text,
                   transcriber_client>>

\* lines 150 and 161-166: an exception leaves the inject call
Wf_InjectRaises(w) ==
    /\ wf_pc[w] = "injecting"
    /\ WfPut(w, "show_message", "Erro Injecao!", "release")
    /\ wf_call' = [wf_call EXCEPT ![w].inject = "raised"]
    /\ UNCHANGED <<wfframe, is_processing, wf_thread, wf_text,
                   transcriber_client, injected>>

\* lines 179-188: the body is left and the finally block releases the lock
\* if it is locked
Wf_Release(w) ==
    /\ wf_pc[w] = "release"
    /\ is_processing' = FALSE
    /\ wf_pc' = [wf_pc EXCEPT ![w] = "cleanup"]
    /\ wf_call' = [wf_call EXCEPT ![w] = NoCalls]
    /\ UNCHANGED <<wfframe, feedback_queue, pushed, wf_thread, wf_text,
                   transcriber_client, injected>>

\* a cleanup that keeps the file of a workflow that typed its text
Wf_CleanupKeepsOnSuccess(w) ==
    /\ wf_pc[w] = "cleanup"
    /\ wav_file' = IF wf_text[w] \notin {"", NoneText} THEN wav_file
                   ELSE NoFile
    /\ wf_pc' = [wf_pc EXCEPT ![w] = "done"]
    /\ wf_thread' = [wf_thread EXCEPT ![w] = None]
    /\ wf_text' = [wf_text EXCEPT ![w] = ""]
    /\ UNCHANGED <<cfg, _queue, _stop_event, _recording_thread, rec_pc,
                   _audio_data, _recording_started_flag, _silent_frames,
                   _total_frames, stream_active, cb_pc, ghostvars, last_call,
                   uivars, unitvars, feedback_queue, pushed, is_processing,
                   transcriber_client, injected, wf_call>>

\* lines 190-195: the temp file is removed if it exists; the function
\* returns and its locals are gone
Wf_Cleanup(w) ==
    /\ wf_pc[w] = "cleanup"
    /\ wav_file' = NoFile
    /\ wf_pc' = [wf_pc EXCEPT ![w] = "done"]
    /\ wf_thread' = [wf_thread EXCEPT ![w] = None]
    /\ wf_text' = [wf_text EXCEPT ![w] = ""]
    /\ UNCHANGED <<cfg, _queue, _stop_event, _recording_thread, rec_pc,
                   _audio_data, _recording_started_flag, _silent_frames,
                   _total_frames, stream_active, cb_pc, ghostvars, last_call,
                   uivars, unitvars, feedback_queue, pushed, is_processing,
                   transcriber_client, injected, wf_call>>

\* blocks delivered while a workflow records: silence or speech
WfBlockData == {QuietData, LoudData}

\* the audio subsystem delivers any block to the workflow's recorder
CallbackWf ==
    /\ delivered < MaxWfBlocks
    /\ \E data \in WfBlockData : CallbackBody(data)

\* ------------------------------------------ PySideFeedbackWindow (GUI thread)
\* WaveAnimationWidget.set_level: clamp to [0.0, 1.0], over MAX_EXPECTED_RMS
set_level(level) ==
    IF level < 0 THEN 0
    ELSE IF level > MAX_EXPECTED_RMS THEN MAX_EXPECTED_RMS ELSE level

\* PySideFeedbackWindow.start_recording (lines 575-591) on the overlay
\* state ov; hide_timers counts the pending QTimer.singleShot(_hide...)
fw_start_recording(ov) ==
    [ov EXCEPT !.is_recording = TRUE, !.is_processing = FALSE,
               !.elapsed_timer = TRUE, !.position_timer = TRUE,
               !.current_state = "recording", !.shown = TRUE]

\* a stop_recording that schedules the hide whatever the processing flag
fw_stop_recording_always_hides(ov) ==
    [ov EXCEPT !.is_recording = FALSE, !.elapsed_timer = FALSE,
               !.position_timer = FALSE, !.current_state = "idle",
               !.hide_timers = @ + 1]

\* PySideFeedbackWindow.stop_recording (lines 593-604)
fw_stop_recording(ov) ==
    IF ~ov.is_processing
    THEN [ov EXCEPT !.is_recording = FALSE, !.elapsed_timer = FALSE,
                    !.position_timer = FALSE, !.current_state = "idle",
                    !.hide_timers = @ + 1]
    ELSE [ov EXCEPT !.is_recording = FALSE, !.elapsed_timer = FALSE]

\* PySideFeedbackWindow.start_processing (lines 606-613)
fw_start_processing(ov) ==
    [ov EXCEPT !.is_processing = TRUE, !.elapsed_timer = FALSE,
               !.current_state = "processing"]

\* a processing_complete that hides the window at once
fw_processing_complete_hides_now(ov) ==
    IF ~ov.is_recording
    THEN [ov EXCEPT !.is_processing = FALSE, !.position_timer = FALSE,
                    !.current_state = "idle", !.shown = FALSE]
    ELSE [ov EXCEPT !.is_processing = FALSE]

\* PySideFeedbackWindow.processing_complete (lines 615-624)
fw_processing_complete(ov) ==
    IF ~ov.is_recording
    THEN [ov EXCEPT !.is_processing = FALSE, !.position_timer = FALSE,
                    !.current_state = "idle", !.hide_timers = @ + 1]
    ELSE [ov EXCEPT !.is_processing = FALSE]

\* an update_volume that does not look at the recording flag
fw_update_volume_any_state(ov, level) ==
    [ov EXCEPT !.level = set_level(level)]

\* PySideFeedbackWindow.update_volume (lines 626-634), for a numeric level
fw_update_volume(ov, level) ==
    IF ov.is_recording THEN [ov EXCEPT !.level = set_level(level)]
    ELSE ov

\* PySideFeedbackWindow.show_message (lines 636-642)
fw_show_message(ov) ==
    [ov EXCEPT !.current_state = "idle", !.shown = TRUE,
               !.hide_timers = @ + 1]

\* PySideFeedbackWindow._handle_feedback (lines 469-486)
_handle_feedback(ov, command, data) ==
    CASE command = "start_recording" -> fw_start_recording(ov)
      [] command = "stop_recording" -> fw_stop_recording(ov)
      [] command = "update_volume" -> fw_update_volume(ov, data)
      [] command = "start_processing" -> fw_start_processing(ov)
      [] command = "processing_complete" -> fw_processing_complete(ov)
      [] command = "show_message" -> fw_show_message(ov)
      [] OTHER -> ov

\* a get that takes the newest message
FeedbackGetLast(q) == [msg |-> q[Len(q)], rest |-> SubSeq(q, 1, Len(q) - 1)]

\* queue.Queue.get_nowait on a non-empty queue: the oldest message
FeedbackGet(q) == [msg |-> Head(q), rest |-> Tail(q)]

uiframe == <<cfg, recvars, ghostvars, last_call, wfvars, pushed, unitvars>>

\* the 50 ms queue_timer fires: _process_queue is entered
PQ_Start ==
    /\ ui_pc = "idle"
    /\ ui_pc' = "loop"
    /\ pq_snapshot' = {feedback_queue[i].id : i \in 1..Len(feedback_queue)}
    /\ UNCHANGED <<uiframe, feedback_queue, overlay, dispatched, handled>>

\* a loop that is left once one message has been dispatched
PQ_ReturnEarly ==
    /\ ui_pc = "loop"
    /\ \/ feedback_queue = <<>>
       \/ pq_snapshot \ {feedback_queue[i].id : i \in 1..Len(feedback_queue)}
             # {}
    /\ ui_pc' = "idle"
    /\ pq_snapshot' = {}
    /\ UNCHANGED <<uiframe, feedback_queue, overlay, dispatched, handled>>

\* line 434: feedback_queue.empty() is true, _process_queue returns
PQ_Return ==
    /\ ui_pc = "loop"
    /\ feedback_queue = <<>>
    /\ ui_pc' = "idle"
    /\ pq_snapshot' = {}
    /\ UNCHANGED <<uiframe, feedback_queue, overlay, dispatched, handled>>

\* lines 434-438: the queue is not empty; get_nowait, then
\* feedback_signal.emit runs _handle_feedback in the GUI thread (the only
\* consumer, so the message seen by empty() is still there for get_nowait)
PQ_Dispatch ==
    /\ ui_pc = "loop"
    /\ feedback_queue # <<>>
    /\ LET g == FeedbackGet(feedback_queue)
       IN  /\ feedback_queue' = g.rest
           /\ overlay' = _handle_feedback(overlay, g.msg.cmd, g.msg.data)
           /\ dispatched' = Append(dispatched,
                                 [src |-> g.msg.src, id |-> g.msg.id])
           /\ handled' = Append(handled, [cmd |-> g.msg.cmd,
                                          data |-> g.msg.data])
    /\ UNCHANGED <<uiframe, ui_pc, pq_snapshot>>

\* ------------------------------------------------------- specifications
InitRecorder ==
    /\ _queue = <<>>
    /\ _stop_event = FALSE
    /\ _recording_thread = None
    /\ rec_pc = "none"
    /\ _audio_data = <<>>
    /\ _recording_started_flag = FALSE
    /\ _silent_frames = 0
    /\ _total_frames = 0
    /\ stream_active = FALSE
    /\ cb_pc = "idle"
    /\ wav_file = NoFile
    /\ feedback_queue = <<>>
    /\ delivered = 0
    /\ vol_attempts = 0
    /\ pushed = 0
    /\ sess_blocks = <<>>
    /\ auto_stop_at = 0
    /\ cb_signalled = FALSE
    /\ manual_stop = FALSE
    /\ sess_wrote = FALSE
    /\ stream_error = NoError
    /\ last_call = [op |-> "none", ret |-> None, alive |-> FALSE, tick |-> 0]
    /\ is_processing = FALSE
    /\ wf_pc = [w \in Workflows |-> "idle"]
    /\ wf_thread = [w \in Workflows |-> None]
    /\ wf_text = [w \in Workflows |-> ""]
    /\ injected = <<>>
    /\ wf_call = [w \in Workflows |-> NoCalls]
    /\ tr_last = [calls |-> 0]
    /\ inj_last = [calls |-> 0]
    /\ norm_last = [calls |-> 0]
    /\ ui_pc = "idle"
    /\ overlay = [is_recording |-> FALSE, is_processing |-> FALSE,
                  current_state |-> "idle", level |-> 0,
                  elapsed_timer |-> FALSE, position_timer |-> FALSE,
                  shown |-> FALSE, hide_timers |-> 0]
    /\ dispatched = <<>>
    /\ pq_snapshot = {}
    /\ handled = <<>>

\* the recorder alone, driven by a client and by the audio subsystem
InitRec ==
    /\ cfg \in Configs
    /\ transcriber_client = TRUE
    /\ InitRecorder

NextRec ==
    \/ StartRecording
    \/ StopRecording
    \/ Callback
    \/ CallbackSignal
    \/ RL_Init
    \/ RL_OpenStream
    \/ RL_OpenFail
    \/ RL_CheckStop
    \/ RL_Get
    \/ RL_GetTimeout
    \/ RL_ExitWith
    \/ RL_Finalize
    \/ RL_SaveFail

SpecRec == InitRec /\ [][NextRec]_vars

\* the steps of the capture thread (threading.Thread running _recording_loop)
RecorderThread ==
    \/ RL_Init
    \/ RL_OpenStream
    \/ RL_OpenFail
    \/ RL_CheckStop
    \/ RL_Get
    \/ RL_GetTimeout
    \/ RL_ExitWith
    \/ RL_Finalize
    \/ RL_SaveFail

\* the recorder with a scheduler that keeps running the capture thread and
\* lets a callback that has begun return; no block ever has to arrive and no
\* client call ever has to be made
SpecStop ==
    /\ InitRec
    /\ [][NextRec]_vars
    /\ WF_rec_pc(RecorderThread)
    /\ WF_cb_pc(CallbackSignal)

\* the recorder on a device that may fail while the stream runs; sessions
\* end by silence or by the failure, never by stop_recording
InitFault ==
    /\ cfg \in Configs
    /\ transcriber_client = TRUE
    /\ InitRecorder

NextFault ==
    \/ StartRecording
    \/ Callback
    \/ CallbackSignal
    \/ RL_Init
    \/ RL_OpenStream
    \/ RL_OpenFail
    \/ RL_StreamFail
    \/ RL_CheckStop
    \/ RL_Get
    \/ RL_GetTimeout
    \/ RL_ExitWith
    \/ RL_Finalize
    \/ RL_SaveFail

SpecFault == InitFault /\ [][NextFault]_vars

\* a recorder that stops after two silent blocks and hears speech with
\* pauses of any length; nobody calls stop_recording
RunConfigs ==
    { [samplerate |-> 4, blocksize |-> 2, silence_threshold |-> 50,
       silence_stop_ms |-> 1000, feedback |-> FALSE, maxsize |-> 0] }

CallbackRuns ==
    /\ delivered < MaxRunBlocks
    /\ \E data \in WfBlockData : CallbackBody(data)

InitRuns ==
    /\ cfg \in RunConfigs
    /\ transcriber_client = TRUE
    /\ InitRecorder

NextRuns ==
    \/ StartRecording
    \/ CallbackRuns
    \/ CallbackSignal
    \/ RL_Init
    \/ RL_OpenStream
    \/ RL_CheckStop
    \/ RL_Get
    \/ RL_GetTimeout
    \/ RL_ExitWith
    \/ RL_Finalize

SpecRuns == InitRuns /\ [][NextRuns]_vars

\* a recorder attached to a queue.Queue(maxsize=1) that the overlay's
\* _process_queue empties from time to time
SinkConfigs ==
    { [samplerate |-> 4, blocksize |-> 2, silence_threshold |-> 50,
       silence_stop_ms |-> 1000, feedback |-> TRUE, maxsize |-> 1] }

InitSink ==
    /\ cfg \in SinkConfigs
    /\ transcriber_client = TRUE
    /\ InitRecorder

NextSink ==
    \/ StartRecording
    \/ Callback
    \/ CallbackSignal
    \/ RL_Init
    \/ RL_OpenStream
    \/ RL_CheckStop
    \/ RL_Get
    \/ RL_GetTimeout
    \/ RL_ExitWith
    \/ RL_Finalize
    \/ PQ_Start
    \/ PQ_Dispatch
    \/ PQ_Return

SpecSink == InitSink /\ [][NextSink]_vars

\* the default configuration fed the scenario's stream, no manual stop
InitScenario ==
    /\ cfg = DefaultCfg
    /\ transcriber_client = TRUE
    /\ InitRecorder

NextScenario ==
    \/ StartRecording
    \/ CallbackScripted
    \/ CallbackSignal
    \/ RL_Init
    \/ RL_OpenStream
    \/ RL_CheckStop
    \/ RL_Get
    \/ RL_GetTimeout
    \/ RL_ExitWith
    \/ RL_Finalize

SpecScenario == InitScenario /\ [][NextScenario]_vars

\* the application without its overlay: hotkey workflows and their recorder
\* with the feedback queue attached
Init ==
    /\ cfg \in WfConfigs
    /\ transcriber_client = TRUE
    /\ InitRecorder

Next ==
    \/ \E w \in Workflows : Wf_Acquire(w)
    \/ \E w \in Workflows : Wf_EmitStart(w)
    \/ \E w \in Workflows : Wf_StartRec(w)
    \/ \E w \in Workflows : Wf_StartRecRaises(w)
    \/ \E w \in Workflows : Wf_RecError(w)
    \/ \E w \in Workflows : Wf_Join(w)
    \/ \E w \in Workflows : Wf_StartTranscribe(w)
    \/ \E w \in Workflows : Wf_TranscribeDone(w)
    \/ \E w \in Workflows : Wf_HandleResult(w)
    \/ \E w \in Workflows : Wf_EmitInjecting(w)
    \/ \E w \in Workflows : Wf_InjectDone(w)
    \/ \E w \in Workflows : Wf_InjectRaises(w)
    \/ \E w \in Workflows : Wf_Release(w)
    \/ \E w \in Workflows : Wf_Cleanup(w)
    \/ CallbackWf
    \/ CallbackSignal
    \/ RL_Init
    \/ RL_OpenStream
    \/ RL_OpenFail
    \/ RL_CheckStop
    \/ RL_Get
    \/ RL_GetTimeout
    \/ RL_ExitWith
    \/ RL_Finalize
    \/ RL_SaveFail

Spec == Init /\ [][Next]_vars

\* the steps of one WorkflowTriggerThread after it has taken the lock
WorkflowThread(w) ==
    \/ Wf_EmitStart(w)
    \/ Wf_StartRec(w)
    \/ Wf_StartRecRaises(w)
    \/ Wf_RecError(w)
    \/ Wf_Join(w)
    \/ Wf_StartTranscribe(w)
    \/ Wf_TranscribeDone(w)
    \/ Wf_HandleResult(w)
    \/ Wf_EmitInjecting(w)
    \/ Wf_InjectDone(w)
    \/ Wf_InjectRaises(w)
    \/ Wf_Release(w)
    \/ Wf_Cleanup(w)

\* the application with a scheduler that keeps running every thread that can
\* take a step: the capture thread, each workflow thread, the callback that
\* has begun, and the delivery of the blocks the audio subsystem has; the
\* hotkey need not be pressed
SpecFair ==
    /\ Init
    /\ [][Next]_vars
    /\ WF_rec_pc(RecorderThread)
    /\ WF_cb_pc(CallbackSignal)
    /\ WF_delivered(CallbackWf)
    /\ \A w \in Workflows : WF_wf_pc(WorkflowThread(w))

\* the application with the overlay's queue consumer, where threads start
\* and the file is saved without faults
UiWorkflows == 1..MaxUiTriggers

NextUI ==
    \/ \E w \in UiWorkflows : Wf_Acquire(w)
    \/ \E w \in UiWorkflows : Wf_EmitStart(w)
    \/ \E w \in UiWorkflows : Wf_StartRec(w)
    \/ \E w \in UiWorkflows : Wf_Join(w)
    \/ \E w \in UiWorkflows : Wf_StartTranscribe(w)
    \/ \E w \in UiWorkflows : Wf_TranscribeDone(w)
    \/ \E w \in UiWorkflows : Wf_HandleResult(w)
    \/ \E w \in UiWorkflows : Wf_EmitInjecting(w)
    \/ \E w \in UiWorkflows : Wf_InjectDone(w)
    \/ \E w \in UiWorkflows : Wf_Release(w)
    \/ \E w \in UiWorkflows : Wf_Cleanup(w)
    \/ CallbackWf
    \/ CallbackSignal
    \/ RL_Init
    \/ RL_OpenStream
    \/ RL_OpenFail
    \/ RL_CheckStop
    \/ RL_Get
    \/ RL_GetTimeout
    \/ RL_ExitWith
    \/ RL_Finalize
    \/ PQ_Start
    \/ PQ_Dispatch
    \/ PQ_Return

InitUI ==
    /\ cfg \in WfConfigs
    /\ transcriber_client = TRUE
    /\ InitRecorder

SpecUI == InitUI /\ [][NextUI]_vars

\* the Transcriber and the TextInjector called directly, with any arguments
\* and any end of the API call and of the keystroke simulation
InitUnits ==
    /\ cfg \in WfConfigs
    /\ \E api_key, env_key, ctor_ok \in BOOLEAN :
          transcriber_client = TranscriberInit(api_key, env_key, ctor_ok)
    /\ InitRecorder

\* transcriber.transcribe_audio(path) where path exists or not
TranscribeCall ==
    /\ tr_last.calls < MaxCalls
    /\ \E exists \in BOOLEAN, api \in Texts \cup ApiErrors \cup {OpenNotFound} :
          LET r == transcribe_audio(transcriber_client, exists, api)
          IN  tr_last' = [calls |-> tr_last.calls + 1,
                          client |-> transcriber_client, exists |-> exists,
                          api |-> api, raised |-> r.raised, value |-> r.value]
    /\ UNCHANGED <<cfg, recvars, feedback_queue, pushed, ghostvars, last_call,
                   wfvars, uivars, inj_last, norm_last>>

\* text_injector.inject(text)
InjectCall ==
    /\ inj_last.calls < MaxCalls
    /\ \E text \in Texts, sim \in WriteOutcomes :
          LET r == inject(text, sim)
          IN  /\ inj_last' = [calls |-> inj_last.calls + 1, text |-> text,
                              sim |-> sim, raised |-> r.raised, ret |-> r.ret,
                              typed |-> r.typed]
              /\ injected' = injected \o r.typed
    /\ UNCHANGED <<cfg, recvars, feedback_queue, pushed, ghostvars, last_call,
                   is_processing, wf_pc, wf_thread, wf_text,
                   transcriber_client, wf_call, uivars, tr_last, norm_last>>

NextUnits ==
    \/ TranscribeCall
    \/ InjectCall

SpecUnits == InitUnits /\ [][NextUnits]_vars

\* the commands _handle_feedback knows, and one it does not
Commands ==
    {"start_recording", "stop_recording", "update_volume",
     "start_processing", "processing_complete", "show_message", "unknown"}

\* update_volume payloads over MAX_EXPECTED_RMS: -0.1, 0.0, 0.5, 1.0, 1.1
LevelPayloads == {-70, 0, 350, 700, 770}

Payloads(command) ==
    IF command = "update_volume" THEN LevelPayloads
    ELSE IF command = "show_message" THEN {"Injetando..."}
    ELSE {""}

\* feedback_signal delivers any command to the _handle_feedback slot
OverlayHandle ==
    /\ Len(handled) < MaxHandled
    /\ \E command \in Commands :
          \E data \in Payloads(command) :
             /\ overlay' = _handle_feedback(overlay, command, data)
             /\ handled' = Append(handled, [cmd |-> command, data |-> data])
    /\ UNCHANGED <<uiframe, feedback_queue, ui_pc, dispatched, pq_snapshot>>

\* a pending single-shot timer fires: _hide_with_animation fades the window
\* out and _finish_hide hides it (lines 452-467)
HideTimerFires ==
    /\ overlay.hide_timers > 0
    /\ overlay' = [overlay EXCEPT !.hide_timers = @ - 1, !.shown = FALSE]
    /\ UNCHANGED <<uiframe, feedback_queue, ui_pc, dispatched, pq_snapshot,
                   handled>>

\* the overlay window alone, handed any sequence of commands
InitOverlay ==
    /\ cfg \in WfConfigs
    /\ transcriber_client = TRUE
    /\ InitRecorder

NextOverlay ==
    \/ OverlayHandle
    \/ HideTimerFires

SpecOverlay == InitOverlay /\ [][NextOverlay]_vars

\* RMS values around the ends of the scale and beyond it (the RMS of int16
\* samples is at most 32768)
RmsSamples == {0, 1, 350, 699, 700, 701, 1400, 32768}

\* blocks whose RMS is 0, half the reference maximum, and above it
HalfData == <<-350, 350>>
OverData == <<-701, 701>>
LevelData == {QuietData, HalfData, OverData}

\* recorder._normalize_rms(rms) called directly while no session runs
NormalizeCall ==
    /\ norm_last.calls < MaxCalls
    /\ ~IsAlive
    /\ \E rms \in RmsSamples :
          norm_last' =
              [calls |-> norm_last.calls + 1, rms |-> rms,
               out |-> _normalize_rms(rms),
               prev_rms |-> IF norm_last.calls = 0 THEN rms
                            ELSE norm_last.rms,
               prev_out |-> IF norm_last.calls = 0 THEN _normalize_rms(rms)
                            ELSE norm_last.out]
    /\ UNCHANGED <<cfg, recvars, feedback_queue, pushed, ghostvars, last_call,
                   wfvars, uivars, tr_last, inj_last>>

\* the audio subsystem delivers a block of any level
CallbackLevels ==
    /\ delivered < MaxBlocks
    /\ \E data \in LevelData : CallbackBody(data)

\* a recorder with the feedback queue attached that hears blocks of any
\* level, and direct calls of the normalization once the sessions are over
InitNorm ==
    /\ cfg \in WfConfigs
    /\ transcriber_client = TRUE
    /\ InitRecorder

NextNorm ==
    \/ NormalizeCall
    \/ norm_last.calls = 0 /\ StartRecording
    \/ CallbackLevels
    \/ CallbackSignal
    \/ RL_Init
    \/ RL_OpenStream
    \/ RL_CheckStop
    \/ RL_Get
    \/ RL_GetTimeout
    \/ RL_ExitWith
    \/ RL_Finalize

SpecNorm == InitNorm /\ [][NextNorm]_vars

\* ------------------------------------------------------------ properties
IsSilentBlock(b) == _calculate_rms(b.data) <= cfg.silence_threshold

\* no block delivered in this session has exceeded the threshold
NoLoudYet == \A i \in 1..Len(sess_blocks) : IsSilentBlock(sess_blocks[i])

\* the capture thread has run its reset of the per-session state
SessionRunning == rec_pc \notin {"none", "init"}

\* C1: while every block delivered in the session has RMS <= threshold
\* (RMS = threshold included), nothing is accumulated, enqueued or counted,
\* and the session has written no output.
C1_PreSpeechSilenceDiscarded ==
    (SessionRunning /\ NoLoudYet) =>
        /\ _audio_data = <<>>
        /\ _queue = <<>>
        /\ _total_frames = 0
        /\ ~_recording_started_flag
        /\ ~sess_wrote

\* a session that received only silence, one block of it at RMS = threshold,
\* and has finished
C1_Witness ==
    /\ rec_pc = "dead"
    /\ Len(sess_blocks) >= 2
    /\ NoLoudYet
    /\ \E i \in 1..Len(sess_blocks) : sess_blocks[i].data = EdgeData

\* the last block processed was a kept silent block
LastBlockSilentKept == SessionRunning /\ _silent_frames > 0

\* C2 as stated: a kept silent block signals the stop exactly when
\* count x (blocksize / samplerate) >= silence_stop_duration.
C2_StopIffDurationReached ==
    LastBlockSilentKept =>
        (cb_signalled <=>
            _silent_frames * cfg.blocksize * 1000
                >= cfg.silence_stop_ms * cfg.samplerate)

\* C2 amended: a kept silent block signals the stop exactly when the count
\* has reached the whole number of blocks in silence_stop_duration, that is
\* when (count + 1) x (blocksize / samplerate) > silence_stop_duration.
C2_StopIffWholeBlocksReached ==
    LastBlockSilentKept =>
        (cb_signalled <=>
            (_silent_frames + 1) * cfg.blocksize * 1000
                > cfg.silence_stop_ms * cfg.samplerate)

\* the stop is signalled after 2 silent blocks of 0.4 s with a stop duration
\* of 1 s
C2_Witness ==
    /\ cb_signalled
    /\ cb_pc = "signal"
    /\ _silent_frames = 2
    /\ cfg.samplerate = 5

\* C3: with the default configuration 64 silent blocks are needed, and in
\* the first session of the scenario the stop event is set by the callback
\* of the 64th silent block: not set while the loop runs before that block,
\* and set once that block's callback has returned.
C3_DefaultStopsAt64 ==
    /\ silent_frames_needed(DefaultCfg) = 64
    /\ (_recording_thread = 1 /\ SessionRunning) =>
          /\ (_stop_event /\ stream_active) =>
                 Len(sess_blocks) >= ScenarioLoud + 64
          /\ (Len(sess_blocks) >= ScenarioLoud + 64 /\ cb_pc = "idle") =>
                 (_stop_event /\ auto_stop_at = ScenarioLoud + 64)
          /\ Len(sess_blocks) < ScenarioLoud + 64 => auto_stop_at = 0

\* the 64th silent block has just set the stop event
C3_Witness ==
    /\ _recording_thread = 1
    /\ stream_active
    /\ _stop_event
    /\ auto_stop_at = ScenarioLoud + 64
    /\ Len(sess_blocks) = ScenarioLoud + 64
    /\ _silent_frames = 64

\* the blocks up to the one that set the stop are N >= 1 loud blocks followed
\* by silent blocks only
LoudThenSilent ==
    \E N \in 1..auto_stop_at :
        \A i \in 1..auto_stop_at :
            IF i <= N THEN ~IsSilentBlock(sess_blocks[i])
            ELSE IsSilentBlock(sess_blocks[i])

\* C4: a finished session of N loud blocks and M silent blocks, stopped by
\* the M-th silent block and by nothing else, has saved all N+M blocks in
\* order.
C4_AllBlocksSaved ==
    (rec_pc = "dead" /\ auto_stop_at # 0 /\ ~manual_stop /\ LoudThenSilent) =>
        /\ sess_wrote
        /\ Len(wav_file) >= auto_stop_at
        /\ SubSeq(wav_file, 1, auto_stop_at)
               = SubSeq(sess_blocks, 1, auto_stop_at)

\* C5: a start_recording() call made while the capture thread is alive
\* returns None and changes nothing of the recorder.
C5_StartWhileAliveNoEffect ==
    [][(IsAlive /\ last_call' # last_call
          /\ last_call'.op = "start_recording")
        => (last_call'.ret = None /\ UNCHANGED recvars)]_vars

\* start_recording() was refused during a session that holds blocks both in
\* the queue and in the accumulation buffer
C5_Witness ==
    /\ last_call.op = "start_recording"
    /\ last_call.alive
    /\ last_call.ret = None
    /\ IsAlive
    /\ _queue # <<>>
    /\ _audio_data # <<>>
    /\ ~_stop_event

\* C6: a stop_recording() call made while no capture thread is alive changes
\* nothing of the recorder.
C6_StopWhenIdleNoEffect ==
    [][(~IsAlive /\ last_call' # last_call
          /\ last_call'.op = "stop_recording")
        => UNCHANGED recvars]_vars

\* stop_recording() was called on a recorder that never started, and the
\* stop event is still clear
C6_Witness ==
    /\ last_call.op = "stop_recording"
    /\ ~last_call.alive
    /\ rec_pc = "none"
    /\ ~_stop_event

Ids(q) == {q[i].id : i \in 1..Len(q)}

\* C7: messages of one producer are dispatched to _handle_feedback in the
\* order that producer put them (ids number the puts in arrival order).
C7_PerProducerOrder ==
    \A i, j \in 1..Len(dispatched) :
        (i < j /\ dispatched[i].src = dispatched[j].src)
            => dispatched[i].id < dispatched[j].id

\* three messages of one workflow were dispatched in order with a message of
\* another producer dispatched between them
C7_Witness ==
    \E i, j, k, m \in 1..Len(dispatched) :
        /\ i < j /\ j < k /\ i < m /\ m < k
        /\ dispatched[i].src = dispatched[j].src
        /\ dispatched[j].src = dispatched[k].src
        /\ dispatched[i].src.kind = "workflow"
        /\ dispatched[m].src # dispatched[i].src

\* every message put so far is either dispatched once or queued once
ExactlyOnce ==
    LET all == dispatched \o feedback_queue
    IN  /\ Len(all) = pushed
        /\ \A n \in 1..pushed :
               Cardinality({i \in 1..Len(all) : all[i].id = n}) = 1

\* C8: every message put is dispatched exactly once or still queued, and a
\* _process_queue call returns only with every message that was queued when
\* it began dispatched and the queue empty, the dispatches then numbering
\* the puts.
C8_ExactlyOnceAndDrained ==
    [][/\ ExactlyOnce'
       /\ (ui_pc = "loop" /\ ui_pc' = "idle") =>
              /\ pq_snapshot \subseteq Ids(dispatched)
              /\ feedback_queue = <<>>
              /\ Len(dispatched) = pushed]_vars

\* a _process_queue call that began with two or more messages queued has
\* dispatched them all and is about to return
C8_Witness ==
    /\ ui_pc = "loop"
    /\ Cardinality(pq_snapshot) >= 2
    /\ pq_snapshot \subseteq Ids(dispatched)
    /\ feedback_queue = <<>>

\* positions between a workflow's successful acquire and its release
InWorkflow ==
    {"emit_start", "start_rec", "join", "rec_error", "transcribe",
     "transcribing", "result", "inject", "injecting", "release"}

\* C9: at most one workflow is between its acquire of ProcessingLock and its
\* release, and it holds the lock.
C9_SingleFlight ==
    /\ Cardinality({w \in Workflows : wf_pc[w] \in InWorkflow}) <= 1
    /\ (\E w \in Workflows : wf_pc[w] \in InWorkflow) => is_processing

\* one workflow is injecting while the other trigger has been turned away
C9_Witness ==
    \E w1, w2 \in Workflows :
        /\ wf_pc[w1] = "injecting"
        /\ wf_pc[w2] = "ignored"

\* C10: a trigger that finds ProcessingLock held returns at once, changing
\* neither the feedback queue, the recorder, the lock nor the temp file, and
\* never runs a workflow afterwards.
C10_BusyTriggerIgnored ==
    [][\A w \in Workflows :
          /\ (is_processing /\ wf_pc[w] = "idle" /\ wf_pc'[w] # "idle") =>
                 /\ wf_pc'[w] = "ignored"
                 /\ UNCHANGED <<feedback_queue, pushed, recvars,
                                is_processing, injected, wf_thread, wf_text>>
          /\ wf_pc[w] = "ignored" => wf_pc'[w] = "ignored"]_vars

\* a trigger was turned away, the workflow that held the lock has finished,
\* the lock is free, and the ignored trigger still has not run
C10_Witness ==
    \E w1, w2 \in Workflows :
        /\ wf_pc[w1] = "done"
        /\ wf_pc[w2] = "ignored"
        /\ ~is_processing
        /\ Len(injected) = 1

\* the (command, data) pairs workflow w has put that are still queued, in
\* order; where nothing consumes the queue these are all its puts
FromWf(w, m) == m.src = WfSrc(w)
WfMsgs(w) ==
    LET mine == SelectSeq(feedback_queue, LAMBDA m : FromWf(w, m))
    IN  [i \in 1..Len(mine) |-> <<mine[i].cmd, mine[i].data>>]

\* positions of a workflow after the release in its finally block
Released == {"cleanup", "done"}

\* C11: a workflow that acquired ProcessingLock and has passed its finally
\* block's release does not hold the lock any more, whichever way its body
\* ended: if the lock is held then, a different workflow is between its own
\* acquire and release.
C11_LockReleasedOnEveryPath ==
    \A w \in Workflows :
        (wf_pc[w] \in Released /\ is_processing) =>
            \E v \in Workflows \ {w} : wf_pc[v] \in InWorkflow

\* one workflow whose capture raised and one whose injection failed have both
\* passed their release, and the lock is free
C11_Witness ==
    \E w1, w2 \in Workflows :
        /\ wf_pc[w1] \in Released
        /\ wf_pc[w2] \in Released
        /\ WfMsgs(w1) = << <<"start_recording", "">>,
                           <<"show_message", "Erro Gravacao!">> >>
        /\ WfMsgs(w2) = << <<"start_recording", "">>,
                           <<"show_message", "Injetando...">>,
                           <<"show_message", "Erro Injecao!">> >>
        /\ ~is_processing

\* the step does not write the temp file: it leaves it as it is or removes it
FileExists == wav_file # NoFile
FileNotWritten ==
    FileExists' => (FileExists /\ wav_file' = wav_file)

\* positions from the start of the transcription to the release
AfterCapture == {"transcribing", "result", "inject", "injecting", "release"}

C13_AuthFailureShowsError ==
    \A w \in Workflows :
        (wf_pc[w] = "release" /\ wf_call[w].api = "AuthenticationError") =>
            /\ WfMsgs(w) = << <<"start_recording", "">>,
                              <<"show_message", "Erro Transcricao!">> >>
            /\ wf_call[w].inject = NotCalled

\* the service-side failures of a transcribe_audio call
ServiceFailure(c) == ~c.client \/ (c.exists /\ c.api \in ApiErrors)

\* C14: transcribe_audio returns None without raising when the client is not
\* initialised and when the API call ends in an authentication, rate-limit,
\* API or other unexpected error, and it returns a text only when the call
\* succeeded, then the text of the response.
C14_ServiceFailuresReturnNone ==
    tr_last.calls > 0 =>
        /\ ServiceFailure(tr_last) =>
               (~tr_last.raised /\ tr_last.value = NoneText)
        /\ tr_last.value # NoneText =>
               /\ tr_last.client /\ tr_last.exists /\ ~tr_last.raised
               /\ tr_last.api \in Texts
               /\ tr_last.value = tr_last.api

\* a call on an existing file whose API call raised an unexpected exception
\* returned None
C14_Witness ==
    /\ tr_last.calls > 0
    /\ tr_last.client /\ tr_last.exists
    /\ tr_last.api = "Exception"
    /\ ~tr_last.raised /\ tr_last.value = NoneText

\* the file was not there for the call: at the exists test or at open
NotFound(c) == ~c.exists \/ c.api = OpenNotFound

\* C15 as stated: transcribe_audio raises FileNotFoundError whenever the
\* path does not exist, in every transcriber state, and raises for nothing
\* else.
C15_NotFoundAlwaysRaised ==
    tr_last.calls > 0 =>
        /\ ~tr_last.exists => tr_last.raised
        /\ tr_last.raised => NotFound(tr_last)

\* C15: with an initialised client transcribe_audio raises FileNotFoundError
\* exactly when the path does not exist (or vanishes before it is opened);
\* with no client it returns None without raising, whether or not the path
\* exists.
C15_NotFoundRaisedWithClient ==
    tr_last.calls > 0 =>
        /\ tr_last.client => (tr_last.raised <=> NotFound(tr_last))
        /\ ~tr_last.client => (~tr_last.raised /\ tr_last.value = NoneText)

\* a transcriber without client was called with a path that does not exist
\* and returned None
C15_Witness ==
    /\ tr_last.calls > 0
    /\ ~tr_last.client /\ ~tr_last.exists
    /\ ~tr_last.raised /\ tr_last.value = NoneText

\* C16: a workflow whose transcription succeeded with an empty text leaves
\* its body for the release having put start_recording and then exactly one
\* stop_recording, no show_message, and without having called inject.
C16_EmptyTextStopsOnce ==
    \A w \in Workflows :
        (wf_pc[w] = "release" /\ wf_call[w].api = "") =>
            /\ WfMsgs(w) = << <<"start_recording", "">>,
                              <<"stop_recording", "">> >>
            /\ wf_call[w].inject = NotCalled

\* a workflow whose recording was saved got an empty text and is about to
\* release the lock, nothing having been typed
C16_Witness ==
    \E w \in Workflows :
        /\ wf_pc[w] = "release"
        /\ wf_call[w].api = ""
        /\ sess_wrote
        /\ injected = <<>>
        /\ Len(WfMsgs(w)) = 2

\* C17: a workflow whose transcription gave a non-empty text has put
\* "Injetando..." before inject is called with that text; it leaves its body
\* having put stop_recording after it iff inject returned True, and
\* "Erro Injecao!" and no stop_recording if inject returned False or raised.
C17_InjectingThenOutcome ==
    \A w \in Workflows :
        /\ wf_pc[w] = "injecting" =>
               /\ WfMsgs(w) = << <<"start_recording", "">>,
                                 <<"show_message", "Injetando...">> >>
               /\ wf_text[w] = wf_call[w].api
               /\ wf_text[w] \in Texts \ {""}
        /\ (wf_pc[w] = "release" /\ wf_call[w].api \in Texts \ {""}) =>
               /\ wf_call[w].inject \in {"True", "False", "raised"}
               /\ WfMsgs(w) =
                      << <<"start_recording", "">>,
                         <<"show_message", "Injetando...">>,
                         IF wf_call[w].inject = "True"
                         THEN <<"stop_recording", "">>
                         ELSE <<"show_message", "Erro Injecao!">> >>
               /\ wf_call[w].inject = "True" =>
                      /\ injected # <<>>
                      /\ injected[Len(injected)] = wf_call[w].api

\* after a workflow whose text was typed, another one had its inject call
\* raise and is about to release the lock
C17_Witness ==
    \E w \in Workflows :
        /\ wf_pc[w] = "release"
        /\ wf_call[w].inject = "raised"
        /\ injected = <<"ola">>

\* C18: a workflow whose start_recording returned None or raised calls
\* neither transcribe_audio nor inject, puts "Erro Gravacao!" and goes
\* straight to the finally block.
C18_CaptureFailureAborts ==
    \A w \in Workflows :
        wf_call[w].start \in {"None", "raised"} =>
            /\ wf_pc[w] \in {"rec_error", "release"}
            /\ wf_call[w].api = NotCalled
            /\ wf_call[w].inject = NotCalled
            /\ wf_pc[w] = "release" =>
                   WfMsgs(w) = << <<"start_recording", "">>,
                                  <<"show_message", "Erro Gravacao!">> >>

\* a workflow whose start_recording raised has put the error message and is
\* about to release the lock
C18_Witness ==
    \E w \in Workflows :
        /\ wf_pc[w] = "release"
        /\ wf_call[w].start = "raised"
        /\ Len(WfMsgs(w)) = 2

\* C19: inject never raises; for an empty text it returns True and types
\* nothing; for a non-empty text it returns True, the text typed, iff
\* pyautogui.write completed, and False on FailSafeException or any other
\* exception.
C19_InjectContract ==
    inj_last.calls > 0 =>
        /\ ~inj_last.raised
        /\ inj_last.text = "" => (inj_last.ret /\ inj_last.typed = <<>>)
        /\ inj_last.text # "" =>
               /\ inj_last.ret <=> inj_last.sim = "ok"
               /\ inj_last.typed =
                      IF inj_last.ret THEN <<inj_last.text>> ELSE <<>>

\* after a call that typed its text, a call with the empty text returned
\* True and typed nothing more
C19_Witness ==
    /\ inj_last.calls = 2
    /\ inj_last.text = ""
    /\ inj_last.ret
    /\ injected = <<"ola">>

\* the step leaves the temp file as it is
FileUntouched ==
    /\ FileExists' = FileExists
    /\ FileExists => wav_file' = wav_file

\* C20: when no block of the session exceeded the threshold, the finally
\* block of the capture thread writes no file, puts no feedback message, and
\* the thread ends.
C20_NoSpeechNoFile ==
    [][(rec_pc = "finally" /\ rec_pc' # "finally" /\ NoLoudYet) =>
           /\ rec_pc' = "dead"
           /\ FileUntouched
           /\ ~sess_wrote'
           /\ feedback_queue' = feedback_queue]_vars

\* a session that heard two blocks, none above the threshold, was stopped by
\* stop_recording and its thread ended without a file
C20_Witness ==
    /\ rec_pc = "dead"
    /\ Len(sess_blocks) >= 2
    /\ NoLoudYet
    /\ manual_stop
    /\ ~sess_wrote
    /\ ~FileExists

\* the texts of the error messages the recorder and the workflow put
ErrorTexts ==
    {"Erro no dispositivo de audio!", "Erro na gravacao!",
     "Erro ao salvar audio!", "Erro Gravacao!", "Erro Transcricao!",
     "Erro Injecao!"}

IsErrorMessage(m) == m.cmd = "show_message" /\ m.data \in ErrorTexts

\* the capture of the workflow that holds the lock has ended with nothing
\* accumulated and nothing saved, on a stream that opened and delivered blocks
EmptyCapture(w) ==
    /\ wf_call[w].start = "handle"
    /\ sess_blocks # <<>>
    /\ wf_pc[w] \in AfterCapture
    /\ rec_pc = "dead"
    /\ _audio_data = <<>>
    /\ ~sess_wrote

\* C21: a workflow whose capture ended with no accumulated block and no
\* saved file has put no error message by the time it leaves its body, and
\* neither has its recorder.
C21_EmptyCaptureIsBenign ==
    \A w \in Workflows :
        (EmptyCapture(w) /\ wf_pc[w] = "release") =>
            \A i \in 1..Len(feedback_queue) :
                (FromWf(w, feedback_queue[i])
                   \/ feedback_queue[i].src = RecorderSrc)
                    => ~IsErrorMessage(feedback_queue[i])

\* the session of workflow w, which holds the lock, reported a failed save:
\* the recorder put the save-error message after w put its start_recording
SaveFailed(w) ==
    \E i, j \in 1..Len(feedback_queue) :
        /\ i < j
        /\ FromWf(w, feedback_queue[i])
        /\ feedback_queue[i].cmd = "start_recording"
        /\ feedback_queue[j].src = RecorderSrc
        /\ feedback_queue[j].data = "Erro ao salvar audio!"

\* C22: a workflow whose capture failed to save its file calls neither
\* transcribe_audio nor inject.
C22_SaveFailureAborts ==
    \A w \in Workflows :
        (wf_pc[w] \in AfterCapture /\ SaveFailed(w)) =>
            /\ wf_call[w].api = NotCalled
            /\ wf_call[w].inject = NotCalled

\* the device-error messages in the feedback queue (nothing consumes it
\* where the recorder runs alone)
DeviceErrors(q) ==
    Cardinality({i \in 1..Len(q) :
                    /\ q[i].cmd = "show_message"
                    /\ q[i].data = "Erro no dispositivo de audio!"})

\* the step raises PortAudioError in the try block of the capture thread
StreamFaultStep == stream_error = NoError /\ stream_error' = "PortAudioError"

\* the step is the finally block of a session whose stream failed
FaultFinalizeStep ==
    /\ stream_error = "PortAudioError"
    /\ rec_pc = "finally"
    /\ rec_pc' # "finally"

\* C23: a PortAudioError raised while the stream is opened or while it runs
\* takes the capture thread to its finally block with the accumulated blocks
\* intact; it puts exactly one device-error message when a feedback queue is
\* attached and none otherwise, and no other step puts one; the finally
\* block then sets the stop event, saves the accumulated blocks if there are
\* any (or reports that the save failed) and the thread ends normally.
C23_StreamErrorCaughtAndFinalized ==
    [][/\ StreamFaultStep =>
             /\ rec_pc' = "finally"
             /\ _audio_data' = _audio_data
             /\ IF cfg.feedback
                THEN feedback_queue' =
                         FeedbackPut(feedback_queue, "show_message",
                                     "Erro no dispositivo de audio!",
                                     RecorderSrc, pushed + 1)
                ELSE feedback_queue' = feedback_queue
       /\ ~StreamFaultStep =>
             DeviceErrors(feedback_queue') = DeviceErrors(feedback_queue)
       /\ FaultFinalizeStep =>
             /\ rec_pc' = "dead"
             /\ _stop_event'
             /\ _audio_data # <<>> =>
                    \/ sess_wrote' /\ wav_file' = _audio_data
                    \/ /\ ~sess_wrote'
                       /\ cfg.feedback =>
                              feedback_queue'[Len(feedback_queue')].data
                                  = "Erro ao salvar audio!"
             /\ _audio_data = <<>> =>
                    /\ ~sess_wrote'
                    /\ FileUntouched]_vars

\* a session whose stream failed with PortAudioError while it ran, after a
\* block had been accumulated, has put one device-error message, saved the
\* block and ended
C23_Witness ==
    /\ cfg.feedback
    /\ stream_error = "PortAudioError"
    /\ rec_pc = "dead"
    /\ _stop_event
    /\ Len(_audio_data) >= 1
    /\ sess_wrote
    /\ wav_file = _audio_data
    /\ DeviceErrors(feedback_queue) = 1

\* the normalized values, as numerators over MAX_EXPECTED_RMS: 0.0 .. 1.0
UnitRange == 0..MAX_EXPECTED_RMS

\* C24: _normalize_rms maps 0 to 0.0, every RMS at or above 700 to 1.0 and
\* an RMS in between to RMS / 700; of two calls the one with the larger RMS
\* does not return the smaller value; and the payload of every update_volume
\* message the callback has put lies in [0.0, 1.0].
C24_NormalizedMonotonicAndClamped ==
    /\ norm_last.calls > 0 =>
          /\ norm_last.out \in UnitRange
          /\ norm_last.rms = 0 => norm_last.out = 0
          /\ norm_last.rms >= MAX_EXPECTED_RMS =>
                 norm_last.out = MAX_EXPECTED_RMS
          /\ norm_last.rms \in UnitRange => norm_last.out = norm_last.rms
          /\ norm_last.prev_rms <= norm_last.rms =>
                 norm_last.prev_out <= norm_last.out
          /\ norm_last.prev_rms >= norm_last.rms =>
                 norm_last.prev_out >= norm_last.out
    /\ \A i \in 1..Len(feedback_queue) :
          feedback_queue[i].cmd = "update_volume" =>
              feedback_queue[i].data \in UnitRange

\* a recorder has put the volume of a block whose RMS is above the reference
\* maximum as 1.0, and two direct calls, below and above the reference
\* maximum, returned 699/700 and 1.0
C24_Witness ==
    /\ norm_last.calls = 2
    /\ norm_last.prev_rms = 699
    /\ norm_last.prev_out = 699
    /\ norm_last.rms = 1400
    /\ norm_last.out = MAX_EXPECTED_RMS
    /\ Len(sess_blocks) >= 2
    /\ _calculate_rms(sess_blocks[1].data) > MAX_EXPECTED_RMS
    /\ \E i \in 1..Len(feedback_queue) :
          /\ feedback_queue[i].cmd = "update_volume"
          /\ feedback_queue[i].data = MAX_EXPECTED_RMS

\* the step hands the command to _handle_feedback
Handles(command) ==
    /\ Len(handled') = Len(handled) + 1
    /\ handled'[Len(handled')].cmd = command

\* the data handed over in the step
HandledData == handled'[Len(handled')].data

\* the step neither shows nor hides the window
VisibilityKept == overlay'.shown = overlay.shown

\* the step sets up one more pending hide / none
HideScheduled == overlay'.hide_timers = overlay.hide_timers + 1
NoHideScheduled == overlay'.hide_timers = overlay.hide_timers

\* C25: handling stop_recording clears the recording flag and does not
\* change the window's visibility in the same step; with the processing
\* flag clear it sets up one delayed hide, with the processing flag set it
\* sets up none.
C25_StopRecordingHidesLaterUnlessProcessing ==
    [][Handles("stop_recording") =>
          /\ ~overlay'.is_recording
          /\ VisibilityKept
          /\ overlay'.is_processing = overlay.is_processing
          /\ IF overlay.is_processing THEN NoHideScheduled
             ELSE HideScheduled]_vars

\* start_recording, start_processing and stop_recording were handled in
\* this order: the window is shown, the recording flag is clear, the
\* processing flag is set and no hide is pending
C25_Witness ==
    /\ Len(handled) = 3
    /\ handled[1].cmd = "start_recording"
    /\ handled[2].cmd = "start_processing"
    /\ handled[3].cmd = "stop_recording"
    /\ overlay.shown
    /\ ~overlay.is_recording
    /\ overlay.is_processing
    /\ overlay.hide_timers = 0

\* C26 as stated: handling start_processing or processing_complete never
\* hides the window and never sets up a hide, in any overlay state.
C26_ProcessingNeverSchedulesHide ==
    [][(Handles("start_processing") \/ Handles("processing_complete")) =>
          /\ VisibilityKept
          /\ NoHideScheduled]_vars

\* C26: handling start_processing sets the processing flag and sets up no
\* hide; handling processing_complete clears the flag and sets up one delayed
\* hide exactly when the recording flag is clear; neither changes the
\* window's visibility in the same step nor the recording flag.
C26_ProcessingTogglesHideOnlyWhenIdle ==
    [][/\ Handles("start_processing") =>
             /\ overlay'.is_processing
             /\ VisibilityKept
             /\ NoHideScheduled
             /\ overlay'.is_recording = overlay.is_recording
       /\ Handles("processing_complete") =>
             /\ ~overlay'.is_processing
             /\ VisibilityKept
             /\ overlay'.is_recording = overlay.is_recording
             /\ IF overlay.is_recording THEN NoHideScheduled
                ELSE HideScheduled]_vars

\* start_recording, stop_recording under processing and
\* processing_complete were handled: the window is still shown and the one
\* pending hide is the one processing_complete set up
C26_Witness ==
    /\ Len(handled) = 3
    /\ handled[1].cmd = "start_processing"
    /\ handled[2].cmd = "stop_recording"
    /\ handled[3].cmd = "processing_complete"
    /\ ~overlay.is_recording
    /\ ~overlay.is_processing
    /\ overlay.current_state = "idle"
    /\ overlay.hide_timers = 1

\* the payload clamped to [0.0, 1.0]
Clamped(level) ==
    IF level > MAX_EXPECTED_RMS THEN MAX_EXPECTED_RMS
    ELSE IF level < 0 THEN 0 ELSE level

\* C27: handling update_volume while the recording flag is clear leaves the
\* whole overlay state as it is; while the flag is set it sets the level to
\* the payload clamped to [0.0, 1.0] and changes nothing else.
C27_VolumeOnlyWhileRecording ==
    [][Handles("update_volume") =>
          IF overlay.is_recording
          THEN overlay' = [overlay EXCEPT !.level = Clamped(HandledData)]
          ELSE overlay' = overlay]_vars

\* a level above 1.0 handled while recording was shown as 1.0, and a later
\* update handled after stop_recording left it there
C27_Witness ==
    /\ Len(handled) >= 3
    /\ handled[1].cmd = "start_recording"
    /\ handled[2].cmd = "update_volume"
    /\ handled[2].data = 770
    /\ handled[3].cmd = "stop_recording"
    /\ overlay.level = MAX_EXPECTED_RMS
    /\ ~overlay.is_recording

\* positions of a workflow between the end of its capture thread and the
\* handling of the transcription result
Transcribing == {"transcribe", "transcribing", "result"}

\* C28: while a workflow whose recording was saved is transcribing and every
\* message put so far has been handled by the overlay, the overlay shows the
\* processing status and its recording flag is clear.
C28_TranscribingShowsProcessing ==
    \A w \in UiWorkflows :
        (wf_pc[w] \in Transcribing /\ sess_wrote /\ feedback_queue = <<>>) =>
            /\ overlay.current_state = "processing"
            /\ overlay.is_processing
            /\ ~overlay.is_recording

\* the number of silent blocks at the end of the blocks s
RECURSIVE TrailingSilent(_)
TrailingSilent(s) ==
    IF s = <<>> \/ ~IsSilentBlock(s[Len(s)]) THEN 0
    ELSE 1 + TrailingSilent(SubSeq(s, 1, Len(s) - 1))

\* the index of the first block of s above the threshold, 0 if there is none
FirstLoud(s) ==
    IF \A i \in 1..Len(s) : IsSilentBlock(s[i]) THEN 0
    ELSE CHOOSE i \in 1..Len(s) :
             /\ ~IsSilentBlock(s[i])
             /\ \A j \in 1..(i - 1) : IsSilentBlock(s[j])

\* after the first loud block, no run of silent blocks in s reaches the
\* needed count
ShortPausesOnly(s) ==
    \A i \in 1..Len(s) :
        (FirstLoud(s) # 0 /\ i > FirstLoud(s)) =>
            TrailingSilent(SubSeq(s, 1, i)) < silent_frames_needed(cfg)

\* C29: once the stream is open the silent counter is the length of the run
\* of silent blocks that ends the blocks heard since the first loud one, so
\* every loud block takes it back to zero; and while every pause after the
\* speech began is shorter than the needed count the callback has not set
\* the stop event nor is about to, and the blocks from the first loud one
\* onwards are all kept, in order, in _audio_data and _queue.
C29_ShortPausesNeverStop ==
    (rec_pc \notin {"none", "init"}) =>
        /\ _silent_frames =
               IF FirstLoud(sess_blocks) = 0 THEN 0
               ELSE TrailingSilent(sess_blocks)
        /\ ShortPausesOnly(sess_blocks) =>
               /\ auto_stop_at = 0
               /\ cb_pc = "idle"
               /\ ~_stop_event
               /\ FirstLoud(sess_blocks) # 0 =>
                      _audio_data \o _queue =
                          SubSeq(sess_blocks, FirstLoud(sess_blocks),
                                 Len(sess_blocks))

\* speech, a pause of one block, speech, a pause of one block, speech: five
\* blocks kept, the counter back at zero, no stop
C29_Witness ==
    /\ Len(sess_blocks) = 5
    /\ \A i \in {1, 3, 5} : ~IsSilentBlock(sess_blocks[i])
    /\ \A i \in {2, 4} : IsSilentBlock(sess_blocks[i])
    /\ _silent_frames = 0
    /\ ~_stop_event
    /\ Len(_audio_data) = 5

\* the step is a call of _callback
CallbackStep == delivered' = delivered + 1

\* the block the step delivers
StepBlock == sess_blocks'[Len(sess_blocks')]

\* the feedback queue holds as many messages as it can
SinkFull == cfg.maxsize > 0 /\ Len(feedback_queue) >= cfg.maxsize

\* the step keeps or discards its block as lines 107-121 say, whatever
\* happened to the volume update
ClassifiedAsUsual ==
    LET loud == ~IsSilentBlock(StepBlock)
    IN  /\ _queue' = IF loud \/ _recording_started_flag
                     THEN Append(_queue, StepBlock) ELSE _queue
        /\ _recording_started_flag' = (_recording_started_flag \/ loud)
        /\ _silent_frames' = IF loud THEN 0
                             ELSE IF _recording_started_flag
                             THEN _silent_frames + 1 ELSE _silent_frames
        /\ cb_pc' = IF ~loud /\ _recording_started_flag
                       /\ _silent_frames + 1 >= silent_frames_needed(cfg)
                    THEN "signal" ELSE "idle"

\* C30: with a feedback queue attached every call of _callback makes exactly
\* one put_nowait of an update_volume message, for a block that is kept and
\* for one that is discarded alike; when the queue is full the message is
\* dropped and the queue is left as it was, otherwise the message is
\* appended; in both cases the block is classified as usual and the callback
\* returns.  A stream that is open can always deliver its next block.
C30_OneVolumePushPerBlock ==
    [][/\ (CallbackStep /\ cfg.feedback) =>
             /\ vol_attempts' = vol_attempts + 1
             /\ IF SinkFull
                THEN /\ feedback_queue' = feedback_queue
                     /\ pushed' = pushed
                ELSE /\ Len(feedback_queue') = Len(feedback_queue) + 1
                     /\ feedback_queue'[Len(feedback_queue')].cmd
                            = "update_volume"
                     /\ feedback_queue'[Len(feedback_queue')].data
                            = _normalize_rms(_calculate_rms(StepBlock.data))
                     /\ pushed' = pushed + 1
             /\ ClassifiedAsUsual
       /\ ~CallbackStep => vol_attempts' = vol_attempts
       /\ (stream_active /\ cb_pc = "idle" /\ delivered < MaxBlocks) =>
             ENABLED Callback]_vars

\* three blocks were delivered while the queue held one message: a discarded
\* silent block whose update was queued, and a loud and a silent block that
\* were kept though their updates were dropped
C30_Witness ==
    /\ Len(sess_blocks) = 3
    /\ IsSilentBlock(sess_blocks[1])
    /\ ~IsSilentBlock(sess_blocks[2])
    /\ IsSilentBlock(sess_blocks[3])
    /\ vol_attempts = 3
    /\ pushed = 1
    /\ Len(feedback_queue) = 1
    /\ Len(_audio_data \o _queue) = 2

\* the step is the finally block of the capture thread, from its first line
\* to the end of the thread
FinalizationStep == rec_pc = "finally" /\ rec_pc' = "dead"

\* C31: the capture thread ends only by the step that runs its finally
\* block, whichever way the loop was left (silence, stop_recording, a stream
\* that failed to open), and the stop event is set when it has ended; the
\* finally block is entered only from the try block and left only by that
\* step, so it runs once per session; the file is written by that step and
\* by no other, in particular by no stop_recording call, however many are
\* made.
C31_FinalizationOncePerSession ==
    [][/\ (rec_pc # "dead" /\ rec_pc' = "dead") =>
             (FinalizationStep /\ _stop_event')
       /\ rec_pc = "finally" => rec_pc' \in {"finally", "dead"}
       /\ (rec_pc # "finally" /\ rec_pc' = "finally") =>
             rec_pc \in {"open", "get", "exit_with"}
       /\ (rec_pc = "dead" /\ rec_pc' # "dead") =>
             (rec_pc' = "init" /\ _recording_thread' = _recording_thread + 1)
       /\ ~FinalizationStep =>
             (FileUntouched /\ (sess_wrote' => sess_wrote))
       /\ (last_call' # last_call /\ last_call'.op = "stop_recording") =>
             /\ rec_pc' = rec_pc
             /\ FileUntouched
             /\ _audio_data' = _audio_data]_vars

\* a session that stop_recording stopped has saved its file and ended, and
\* stop_recording was called once more after the thread had ended
C31_Witness ==
    /\ rec_pc = "dead"
    /\ _stop_event
    /\ manual_stop
    /\ sess_wrote
    /\ wav_file = _audio_data
    /\ last_call.op = "stop_recording"
    /\ ~last_call.alive

\* the blocks in the sequence s were all delivered in the current session
OfThisSession(s) ==
    \A i \in 1..Len(s) : \E j \in 1..Len(sess_blocks) : s[i] = sess_blocks[j]

\* the step is a start_recording call that started a thread
SuccessfulStart ==
    /\ last_call' # last_call
    /\ last_call'.op = "start_recording"
    /\ last_call'.ret # None

\* C32: a start_recording call that starts a thread clears the stop event
\* and leaves an empty block queue, and the first step of the new thread
\* empties the accumulated blocks and resets the started flag and both
\* counters; from then on the accumulated and the queued blocks, and the
\* file the session writes, hold only blocks delivered in this session, and
\* as long as none of them was above the threshold nothing is kept.
C32_FreshSession ==
    [][/\ SuccessfulStart => (~_stop_event' /\ _queue' = <<>>
                                /\ rec_pc' = "init")
       /\ (rec_pc = "init" /\ rec_pc' # "init") =>
             /\ _audio_data' = <<>>
             /\ ~_recording_started_flag'
             /\ _silent_frames' = 0
             /\ _total_frames' = 0
       /\ (rec_pc' \notin {"none", "init"}) =>
             /\ OfThisSession(_audio_data)'
             /\ OfThisSession(_queue)'
             /\ sess_wrote' => wav_file' = _audio_data'
             /\ NoLoudYet' => (_audio_data' = <<>> /\ _queue' = <<>>
                                 /\ ~_recording_started_flag')]_vars

\* the second session heard a silent block and then a loud one, and saved
\* the loud one only; the first session had been given a block as well
C32_Witness ==
    /\ _recording_thread = 2
    /\ rec_pc = "dead"
    /\ delivered = 3
    /\ Len(sess_blocks) = 2
    /\ IsSilentBlock(sess_blocks[1])
    /\ sess_wrote
    /\ wav_file = <<sess_blocks[2]>>

\* C33: from the moment a workflow has left its join, through the whole
\* transcription call and the injection, the capture thread it started
\* has ended and no other capture thread runs; the recorder is past its
\* finally block, so whatever that session wrote is written.
C33_TranscriptionAfterCaptureEnded ==
    \A w \in Workflows :
        (wf_pc[w] \in Transcribing \cup {"inject", "injecting"}) =>
            /\ wf_call[w].start = "handle"
            /\ _recording_thread = wf_thread[w]
            /\ rec_pc = "dead"
            /\ ~stream_active
            /\ _stop_event

\* a workflow is in its transcription call, its capture thread has ended and
\* the file it saved is there
C33_Witness ==
    \E w \in Workflows :
        /\ wf_pc[w] = "transcribing"
        /\ rec_pc = "dead"
        /\ sess_wrote
        /\ FileExists
        /\ wav_file = _audio_data

\* C34: once the stop event of a running session is set, that session's
\* capture thread eventually ends, finalization done, whether or not the
\* callback delivers another block.
C34_StopLeadsToFinalized ==
    \A k \in 1..MaxSessions :
        (_recording_thread = k /\ IsAlive /\ _stop_event)
            ~> (_recording_thread = k /\ rec_pc = "dead" /\ ~stream_active)

\* a session stopped by the client before any block arrived has ended
C34_Witness ==
    /\ rec_pc = "dead"
    /\ manual_stop
    /\ _stop_event
    /\ sess_blocks = <<>>
    /\ last_call.op = "stop_recording"
    /\ last_call.alive

\* C35: under fair scheduling, a workflow that has acquired ProcessingLock
\* eventually passes the release in its finally block, also when no block of
\* the stream exceeds the silence threshold (speech never starts).
C35_LockEventuallyReleased ==
    \A w \in Workflows :
        (wf_pc[w] \in {"emit_start", "start_rec", "join"})
            ~> (wf_pc[w] \in Released \/ _recording_started_flag)


\* C36: the file a workflow's capture session saved is still there when that
\* workflow's transcription call starts and opens it: no other workflow's
\* cleanup has removed it in between.
C36_SavedFileSurvivesUntilTranscription ==
    \A w \in Workflows :
        (wf_pc[w] \in {"transcribe", "transcribing"} /\ sess_wrote) => FileExists


\* the queue positions that hold a volume message
VolumeAt(i) == feedback_queue[i].cmd = "update_volume"

\* the capture session a volume message belongs to is open: some workflow
\* put start_recording earlier, and only volume messages lie between
AfterItsStart(i) ==
    \E j \in 1..(i - 1) :
        /\ feedback_queue[j].cmd = "start_recording"
        /\ feedback_queue[j].src.kind = "workflow"
        /\ \A k \in (j + 1)..(i - 1) : VolumeAt(k)

\* C37: in the feedback queue every update_volume message follows the
\* start_recording message of the workflow whose capture session produced
\* it with nothing but volume messages between them, so every later message
\* of that workflow (stop_recording, show_message) follows all of the
\* session's volume messages; and _callback makes a put only while the
\* capture thread a workflow is joining is alive.
C37_VolumeBetweenStartAndOutcome ==
    /\ [](\A i \in 1..Len(feedback_queue) : VolumeAt(i) => AfterItsStart(i))
    /\ [][vol_attempts' # vol_attempts =>
             /\ IsAlive
             /\ stream_active
             /\ \E w \in Workflows : /\ wf_pc[w] = "join"
                                     /\ wf_thread[w] = _recording_thread]_vars

\* a workflow's start_recording, a volume message of its session and its
\* outcome message are queued in this order
C37_Witness ==
    \E w \in Workflows : \E i, j, k \in 1..Len(feedback_queue) :
        /\ i < j /\ j < k
        /\ FromWf(w, feedback_queue[i])
        /\ feedback_queue[i].cmd = "start_recording"
        /\ VolumeAt(j)
        /\ FromWf(w, feedback_queue[k])
        /\ feedback_queue[k].cmd \in {"stop_recording", "show_message"}


\* C38: while the overlay is in the recording state (start_recording was
\* dispatched and no stop_recording since) its window is shown: a hide
\* scheduled before the recording began does not hide it.
C38_RecordingWindowStaysShown ==
    (/\ overlay.is_recording
     /\ \E i \in 1..Len(handled) :
           /\ handled[i].cmd = "start_recording"
           /\ \A k \in (i + 1)..Len(handled) : handled[k].cmd # "stop_recording")
        => overlay.shown


\* C39: once a workflow has returned and every message it put has been
\* dispatched, the overlay is not in the recording state: its recording flag
\* is false and its elapsed-time and cursor-follow timers are stopped.  Stated
\* for the workflows whose capture ran without error and saved its file, that
\* is for the paths that end in transcription or injection.
C39_OverlayLeavesRecordingState ==
    \A w \in UiWorkflows :
        (/\ wf_pc[w] = "done"
         /\ stream_error = NoError
         /\ sess_wrote
         /\ feedback_queue = <<>>
         /\ ui_pc = "idle"
         /\ \A v \in UiWorkflows : wf_pc[v] \in {"idle", "ignored", "done"})
            => /\ ~overlay.is_recording
               /\ ~overlay.elapsed_timer
               /\ ~overlay.position_timer

====
